---- MODULE Spec2Model ----
(***************************************************************************)
(* Governance control plane of ai-cli-sphere (ct/ct-dev):                  *)
(*   - orchestrator/orchestrator.py : HALT state machine, send_intent,     *)
(*     phased execution, resume / approval HTTP handlers                   *)
(*   - orchestrator/intent_validator.py : IntentQueue                      *)
(*   - gateway_auth.py, gateway/gateway_auth.py, gateway.py : security     *)
(*     context in front of the endpoints                                   *)
(*   - prune_plans_by_policy : policy pruning of candidate plans           *)
(* Confidence and penalties are fixed-point numbers, Scale == 1.0.         *)
(***************************************************************************)
EXTENDS Integers, Sequences, FiniteSets, TLC

VARIABLES
    \* ---- orchestrator.py module globals ----
    HALTED, RESUME_REQUESTED, JUST_RESUMED,
    CURRENT_PLAN, APPROVED_STEP_ID, APPROVED_PLAN_ID, APPROVED_PHASE_ID,
    CURRENT_PHASE, COMPLETED_PHASES, SKIPPED_PHASES, PHASE_RESULTS,
    STAGED_PHASE_CACHE, LAST_REJECTED_INTENT, LAST_PLAN_DRAFT, LAST_PLAN_SET,
    CALIBRATION, POLICY,
    \* ---- observable effects of the orchestrator ----
    events,        \* what the latest pass or handler handed to emit_event
    toolCalls,     \* requests the latest pass sent to the action backends
    sent,          \* the send_intent calls of the latest control-loop pass
    planLog,       \* history: plan ids of the plan_completed events, in order
    \* ---- control ----
    pc,            \* position of the control loop: "top" or "body"
    passes,        \* control-loop passes begun so far
    passLimit,     \* passes explored in this run
    hpc,           \* position of the (single-threaded) signal server
    hsnap,         \* orchestrator_state snapshot held by approve-composed-plan
    resume_in_halt,\* history: was HALTED true when RESUME_REQUESTED was last set
    registry,      \* composed plan registry: plan id -> lifecycle state
    audit,         \* AUDIT_LOG of the orchestrator process, in order
    \* ---- intent_validator.py IntentQueue ----
    pending, approved, rejected, next_uuid,
    lastCall,      \* the latest IntentQueue call and what it returned
    succeeded,     \* history: approve / reject calls made, and per id those
                   \* that changed the queue
    \* ---- gateway security context ----
    now,                  \* time.time(), in clock ticks
    request_history,      \* gateway_auth.py RateLimiter.request_history
    request_history_copy, \* gateway/gateway_auth.py RateLimiter.request_history
    limiterLog,           \* history: per key, the check_and_record calls made
    lastReq,              \* the latest request and the answer it got
    \* ---- prune_plans_by_policy ----
    pruneIn, pruneOut,
    \* ---- plan generation called on its own ----
    planning,             \* history: the call made, the return it took
    \* ---- the calibration engine called on its own ----
    calLog,               \* history: the update_penalty calls made, in order
    \* ---- the resume endpoint ----
    resumeLog             \* history: the approve_phase_id, step_id and abort
                          \* of the latest resume body read

orchVars == <<HALTED, RESUME_REQUESTED, JUST_RESUMED, CURRENT_PLAN,
              APPROVED_STEP_ID, APPROVED_PLAN_ID, APPROVED_PHASE_ID,
              CURRENT_PHASE, COMPLETED_PHASES, SKIPPED_PHASES, PHASE_RESULTS,
              STAGED_PHASE_CACHE, LAST_REJECTED_INTENT, LAST_PLAN_DRAFT,
              LAST_PLAN_SET, CALIBRATION, POLICY, events, toolCalls, sent,
              planLog, pc, passes, passLimit, hpc, hsnap, resume_in_halt,
              registry, audit>>
queueVars == <<pending, approved, rejected, next_uuid, lastCall, succeeded>>
gwVars == <<now, request_history, request_history_copy, limiterLog, lastReq>>
pruneVars == <<pruneIn, pruneOut, planning, calLog, resumeLog>>
vars == <<orchVars, queueVars, gwVars, pruneVars>>

Range(s) == {s[i] : i \in 1..Len(s)}
Min(a, b) == IF a < b THEN a ELSE b
Max(a, b) == IF a > b THEN a ELSE b

(***************************************************************************)
(* Bounds of the exploration                                               *)
(***************************************************************************)
MaxPasses == 2      \* control-loop passes explored
MaxSkipped == 1     \* length of SKIPPED_PHASES the resume handler may reach
MaxIntents == 1     \* intents posted to the orchestrator's /intent endpoint
MaxIds == 3         \* intent ids the queue and the plan registry may hold

(***************************************************************************)
(* Values                                                                  *)
(***************************************************************************)
Scale == 10000                    \* fixed-point 1.0
NoId == 0                         \* Python None for step / phase ids
NoPenalty == 0                    \* key absent from CALIBRATION
\* the modes of the ladder, and one mode a reasoning backend may answer
\* that the ladder does not know ("mode" is any string)
LadderModes == {"reason-only", "simulate", "propose"}
Modes == LadderModes \cup {"execute"}
IntentTypes == {"inspect_repo", "plan_action", "apply_patch"}
Targets == {"/tmp/ct-sandbox/a", "/etc/passwd"}
NoIntent == [intent |-> "none", mode |-> "none", confidence |-> 0, target |-> "none"]
NoStep == [id |-> NoId, action |-> "none", target |-> "none"]
NoPlan == [plan_id |-> "none", steps |-> <<>>, phases |-> <<>>]

\* orchestrator.py:32 MODE_TRANSITIONS ("none" when the mode has no successor)
MODE_TRANSITIONS(mode) ==
    CASE mode = "reason-only" -> "simulate"
      [] mode = "simulate" -> "propose"
      [] OTHER -> "none"

Step(i, a, t) == [id |-> i, action |-> a, target |-> t]
\* A phase as the planner's JSON gives it.  The planning prompt names the
\* dependency list "dependencies"; the intent schema and the tests name it
\* "depends_on".  Both keys are kept; an absent key is the empty set.
Phase(i, dependsOn, deps) ==
    [phase_id |-> i, depends_on |-> dependsOn, dependencies |-> deps,
     steps |-> <<Step(1, "inspect_repo", "/tmp/ct-sandbox/a")>>]

\* Plans the reasoning backend may answer with (generate_execution_plan).
FlatPlan == [plan_id |-> "flat",
             steps |-> <<Step(1, "apply_patch", "/tmp/ct-sandbox/a"),
                         Step(2, "inspect_repo", "/etc/passwd")>>,
             phases |-> <<>>]
PhasedPlanDeps == [plan_id |-> "phased_dependencies", steps |-> <<>>,
                   phases |-> <<Phase(1, {}, {}), Phase(2, {}, {1})>>]
PhasedPlanDependsOn == [plan_id |-> "phased_depends_on", steps |-> <<>>,
                        phases |-> <<Phase(1, {}, {}), Phase(2, {1}, {})>>]
\* a phased plan whose phase ids are not the positions 1..n
PhasedPlanShiftedIds == [plan_id |-> "phased_shifted_ids", steps |-> <<>>,
                         phases |-> <<Phase(2, {}, {}), Phase(3, {}, {})>>]
PlanPool == {FlatPlan, PhasedPlanDeps, PhasedPlanDependsOn}

\* Policies the file /app/ct-policy.json may hold (phase_execution_config).
PolicyPool ==
    [phase_enabled : BOOLEAN, allow_phase_skipping : BOOLEAN,
     enable_predictive_staging : {FALSE}, planning_forbidden : {FALSE}]

\* Confidence values the reasoning backend may report.
Confidences == {5000, 7000, 9000}
LlmIntents == [intent : IntentTypes, mode : LadderModes, confidence : {9000},
               target : {"/tmp/ct-sandbox/a"}]
\* Intents handed to send_intent when the call itself is examined.
SendIntents == [intent : IntentTypes, mode : Modes, confidence : Confidences,
                target : Targets]

(***************************************************************************)
(* Calibration engine (orchestrator.py:1279-1296)                          *)
(***************************************************************************)
CalKeys == IntentTypes \X Modes
DecayFloor == 3000                \* 0.30
RecoveryStep == 500               \* 0.05
PatchThreshold == 8000            \* 0.80
ReflectBoost == 2000              \* 0.20
ReframeConfidence == 5000         \* 0.50

get_penalty(cal, intent_type, mode) ==
    IF cal[<<intent_type, mode>>] = NoPenalty THEN Scale
    ELSE cal[<<intent_type, mode>>]

\* update_penalty whose decay has no floor
UpdatePenaltyNoFloor(cal, intent_type, mode, outcome) ==
    LET penalty == get_penalty(cal, intent_type, mode)
        updated == CASE outcome = "decay" -> (penalty * 85) \div 100
                     [] outcome = "recovery" -> Min(penalty + RecoveryStep, Scale)
                     [] outcome = "reset" -> Scale
                     [] OTHER -> penalty
    IN [cal EXCEPT ![<<intent_type, mode>>] = updated]

\* update_penalty whose reset is one recovery step
UpdatePenaltyResetAsRecovery(cal, intent_type, mode, outcome) ==
    LET penalty == get_penalty(cal, intent_type, mode)
        updated == CASE outcome = "decay" -> Max((penalty * 85) \div 100, DecayFloor)
                     [] outcome \in {"recovery", "reset"} ->
                          Min(penalty + RecoveryStep, Scale)
                     [] OTHER -> penalty
    IN [cal EXCEPT ![<<intent_type, mode>>] = updated]

\* orchestrator.py:1282-1296
update_penalty(cal, intent_type, mode, outcome) ==
    LET penalty == get_penalty(cal, intent_type, mode)
        updated == CASE outcome = "decay" -> Max((penalty * 85) \div 100, DecayFloor)
                     [] outcome = "recovery" -> Min(penalty + RecoveryStep, Scale)
                     [] outcome = "reset" -> Scale
                     [] OTHER -> penalty
    IN [cal EXCEPT ![<<intent_type, mode>>] = updated]

(***************************************************************************)
(* The mutable globals a control-loop pass works on, as one record, so     *)
(* that the nested calls of a pass compose as functions on it.             *)
(***************************************************************************)
Globals ==
    [HALTED |-> HALTED, CURRENT_PLAN |-> CURRENT_PLAN,
     APPROVED_STEP_ID |-> APPROVED_STEP_ID, CURRENT_PHASE |-> CURRENT_PHASE,
     COMPLETED_PHASES |-> COMPLETED_PHASES, PHASE_RESULTS |-> PHASE_RESULTS,
     STAGED_PHASE_CACHE |-> STAGED_PHASE_CACHE,
     LAST_REJECTED_INTENT |-> LAST_REJECTED_INTENT,
     LAST_PLAN_DRAFT |-> LAST_PLAN_DRAFT, CALIBRATION |-> CALIBRATION,
     events |-> <<>>, toolCalls |-> <<>>, sent |-> <<>>,
     gatePosts |-> <<>>, executed |-> <<>>]

\* Answers of the collaborators during one send_intent call:
\*   gate : status of POST TOOL_URL (0 stands for a transport exception)
\*   tool : outcome of the action backend ("ok" = 200)
\*   plan : the plan the reasoning backend returns (NoPlan: both tries failed)
\*   review : whether generate_review_artifact returned an artifact
Envs == [gate : {200, 422, 500}, tool : {"ok", "error"},
         plan : PlanPool \cup {NoPlan}, review : {FALSE}]
NoEnv == [gate |-> 500, tool |-> "error", plan |-> NoPlan, review |-> FALSE]
\* The answers send_intent can consult for this intent; an answer that is
\* never asked for is fixed to its NoEnv value.
EnvsFor(intent) ==
    {e \in Envs :
        /\ intent.mode = "propose" => e = NoEnv
        /\ e.gate # 200 => (e.tool = NoEnv.tool /\ e.plan = NoEnv.plan)
        /\ intent.intent = "plan_action" => e.tool = NoEnv.tool
        /\ intent.intent # "plan_action" => e.plan = NoEnv.plan}

\* orchestrator.py:1385-1475 (the "planning forbidden" policy rule is taken
\* from POLICY.planning_forbidden)
generate_execution_plan(s, env) ==
    IF POLICY.planning_forbidden
    THEN [s EXCEPT !.events = Append(@, [type |-> "review_blocked",
                                          reason |-> "restricted_action"]),
                   !.HALTED = TRUE]
    ELSE IF env.plan # NoPlan
    THEN [s EXCEPT !.events =
                       Append(@, [type |-> "execution_plan",
                                  plan_id |-> env.plan.plan_id])
                       \o (IF env.review THEN <<[type |-> "review_artifact"]>>
                           ELSE <<>>),
                   !.CURRENT_PLAN = env.plan,
                   !.APPROVED_STEP_ID = NoId,
                   !.HALTED = TRUE]
    ELSE [s EXCEPT !.events = Append(@, [type |-> "review_blocked",
                                          reason |-> "low_confidence"]),
                   !.HALTED = TRUE]

\* orchestrator.py:1965-2049
execute_tool(s0, intent, env) ==
    LET s == [s0 EXCEPT !.executed = Append(@, intent.intent)]
    IN
    CASE intent.intent = "inspect_repo" ->
           LET called == [s EXCEPT !.toolCalls =
                              Append(@, [op |-> "ls", target |-> intent.target])]
           IN IF env.tool = "ok"
              THEN [called EXCEPT
                      !.CALIBRATION = update_penalty(@, intent.intent, intent.mode, "recovery"),
                      !.events = Append(@, [type |-> "action_invocation",
                                            tool |-> "inspect_repo",
                                            status |-> "success"])]
              ELSE called
      [] intent.intent = "plan_action" -> generate_execution_plan(s, env)
      [] intent.intent = "apply_patch" ->
           LET called == [s EXCEPT !.toolCalls =
                              Append(@, [op |-> "patch", target |-> intent.target])]
           IN IF env.tool = "ok"
              THEN [called EXCEPT
                      !.CALIBRATION = update_penalty(@, intent.intent, intent.mode, "recovery"),
                      !.events = Append(@, [type |-> "action_invocation",
                                            tool |-> "apply_patch",
                                            status |-> "success"])]
              ELSE [called EXCEPT
                      !.events = Append(@, [type |-> "action_invocation",
                                            tool |-> "apply_patch",
                                            status |-> "error"])]
      [] OTHER -> s

\* PatchGateReason without the comparison against the mandated step
PatchGateIgnoringMandate(intent, mandated) ==
    IF intent.intent # "apply_patch" THEN "pass"
    ELSE IF intent.confidence < PatchThreshold THEN "confidence_too_low"
    ELSE "pass"

\* orchestrator.py:2130-2149: the gate in front of apply_patch
PatchGateReason(intent, mandated) ==
    IF intent.intent # "apply_patch" THEN "pass"
    ELSE IF intent.confidence < PatchThreshold THEN "confidence_too_low"
    ELSE IF mandated = NoStep \/ mandated.action # "apply_patch"
         THEN "action_mismatch_with_plan"
    ELSE "pass"

\* SendPropose without the HALT
SendProposeNoHalt(s, intent) ==
    [s EXCEPT !.LAST_PLAN_DRAFT = intent,
              !.events = Append(@, [type |-> "plan_draft", intent |-> intent.intent]),
              !.LAST_REJECTED_INTENT = NoIntent]

\* orchestrator.py:2122-2128: the propose branch of send_intent
SendPropose(s, intent) ==
    [s EXCEPT !.LAST_PLAN_DRAFT = intent,
              !.events = Append(@, [type |-> "plan_draft", intent |-> intent.intent]),
              !.HALTED = TRUE,
              !.LAST_REJECTED_INTENT = NoIntent]

\* orchestrator.py:2151-2170: submission to the tool gate
SendToGate(s, intent, env) ==
    LET posted == [s EXCEPT !.gatePosts = Append(@, intent)]
    IN CASE env.gate = 200 ->
              execute_tool([posted EXCEPT !.LAST_REJECTED_INTENT = NoIntent],
                           intent, env)
         [] env.gate = 422 ->
              [posted EXCEPT !.LAST_REJECTED_INTENT = intent,
                             !.events = Append(@, [type |-> "gate_rejection",
                                                   intent |-> intent.intent,
                                                   mode |-> intent.mode,
                                                   confidence |-> intent.confidence])]
         [] OTHER -> posted

\* orchestrator.py:2111-2118: calibration injection
Calibrated(cal, raw) ==
    IF cal[<<raw.intent, raw.mode>>] # NoPenalty
    THEN [raw EXCEPT !.confidence = (@ * cal[<<raw.intent, raw.mode>>]) \div Scale]
    ELSE raw

\* orchestrator.py:2109-2170
send_intent(s, raw, mandated, env) ==
    LET intent == Calibrated(s.CALIBRATION, raw)
        reason == PatchGateReason(intent, mandated)
    IN IF intent.mode = "propose" THEN SendPropose(s, intent)
       ELSE IF reason # "pass"
       THEN [s EXCEPT !.events = Append(@, [type |-> "gate_rejection",
                                             intent |-> "apply_patch",
                                             reason |-> reason])]
       ELSE SendToGate(s, intent, env)

CountType(evs, t) == Cardinality({i \in 1..Len(evs) : evs[i].type = t})

\* A send_intent call together with the record of what it did: whether the
\* intent was posted to the tool gate, whether execute_tool ran, which action
\* backend requests it made, whether a gate_rejection event was emitted and
\* whether the orchestrator was halted at return.
RecordedSend(s, raw, mandated, env) ==
    LET out == send_intent(s, raw, mandated, env)
    IN [out EXCEPT !.sent = Append(@,
          [intent |-> raw, mandated |-> mandated,
           penalty |-> get_penalty(s.CALIBRATION, raw.intent, raw.mode),
           gate |-> Len(out.gatePosts) > Len(s.gatePosts),
           tool |-> Len(out.executed) > Len(s.executed),
           calls |-> SubSeq(out.toolCalls, Len(s.toolCalls) + 1, Len(out.toolCalls)),
           rejection |-> CountType(out.events, "gate_rejection")
                           > CountType(s.events, "gate_rejection"),
           halted |-> out.HALTED])]

(***************************************************************************)
(* Phased execution engine (orchestrator.py:138-151, 291-381, 455-584)     *)
(***************************************************************************)
\* orchestrator.py:138-151: reads the key "dependencies"
check_phase_dependencies(phase, completed_phases) ==
    \A dep_id \in phase.dependencies : dep_id \in Range(completed_phases)

\* orchestrator.py:348-360: first later phase whose dependencies are met
RECURSIVE NextEligible(_, _, _)
NextEligible(phases, i, completed) ==
    IF i > Len(phases) THEN NoId
    ELSE IF check_phase_dependencies(phases[i], completed) THEN phases[i].phase_id
    ELSE NextEligible(phases, i + 1, completed)

IndexOfPhase(phases, phase_id) ==
    IF \E i \in 1..Len(phases) : phases[i].phase_id = phase_id
    THEN CHOOSE i \in 1..Len(phases) :
            /\ phases[i].phase_id = phase_id
            /\ \A j \in 1..(i - 1) : phases[j].phase_id # phase_id
    ELSE 0

\* orchestrator.py:291-381
stage_next_phase_if_applicable(s, current_phase_id, plan) ==
    LET idx == IndexOfPhase(plan.phases, current_phase_id)
        staged == NextEligible(plan.phases, idx + 1, s.COMPLETED_PHASES)
    IN IF \/ ~POLICY.phase_enabled
          \/ ~POLICY.enable_predictive_staging
          \/ plan = NoPlan \/ plan.phases = <<>>
          \/ \E c \in s.STAGED_PHASE_CACHE : c.plan_id = plan.plan_id
          \/ idx = 0
          \/ staged = NoId
       THEN s
       ELSE [s EXCEPT !.STAGED_PHASE_CACHE =
                 @ \cup {[plan_id |-> plan.plan_id, from_phase |-> current_phase_id,
                          staged_phase_id |-> staged]}]

\* orchestrator.py:497-547: one phase is started, run and recorded
RunPhase(s, plan, phase) ==
    LET next_phase_id == IF phase.phase_id < Len(plan.phases)
                         THEN phase.phase_id + 1 ELSE NoId
    IN [s EXCEPT
          !.CURRENT_PHASE = phase.phase_id,
          !.PHASE_RESULTS = @ \cup {phase.phase_id},
          !.COMPLETED_PHASES = Append(@, phase.phase_id),
          !.events = @ \o <<[type |-> "phase_started", plan_id |-> plan.plan_id,
                             phase_id |-> phase.phase_id,
                             depends_on |-> phase.depends_on,
                             completed |-> Range(s.COMPLETED_PHASES)],
                            [type |-> "phase_completed", plan_id |-> plan.plan_id,
                             phase_id |-> phase.phase_id,
                             next_phase |-> next_phase_id]>>]

\* orchestrator.py:474-584: the walk over plan["phases"] from index i on
RECURSIVE WalkPhases(_, _, _)
WalkPhases(s, plan, i) ==
    IF i > Len(plan.phases)
    THEN [s EXCEPT !.events = Append(@, [type |-> "plan_completed",
                                          plan_id |-> plan.plan_id])]
    ELSE LET phase == plan.phases[i]
             next_phase_id == IF phase.phase_id < Len(plan.phases)
                              THEN phase.phase_id + 1 ELSE NoId
         IN IF phase.phase_id \in Range(SKIPPED_PHASES)
            THEN WalkPhases(s, plan, i + 1)
            ELSE IF ~check_phase_dependencies(phase, s.COMPLETED_PHASES)
            THEN [s EXCEPT !.events = Append(@, [type |-> "phase_blocked",
                                                 plan_id |-> plan.plan_id,
                                                 phase_id |-> phase.phase_id]),
                           !.HALTED = TRUE]
            ELSE LET ran == RunPhase(s, plan, phase)
                     staged == IF next_phase_id # NoId
                               THEN stage_next_phase_if_applicable(
                                        ran, phase.phase_id, s.CURRENT_PLAN)
                               ELSE ran
                 IN IF next_phase_id # NoId
                    THEN [staged EXCEPT !.HALTED = TRUE, !.CURRENT_PHASE = NoId]
                    ELSE WalkPhases(staged, plan, i + 1)

\* orchestrator.py:455-584
execute_plan_with_phases(s, plan) ==
    IF plan.phases = <<>> THEN s ELSE WalkPhases(s, plan, 1)

(***************************************************************************)
(* Control loop (orchestrator.py:2500-2633).  One pass is two steps: the   *)
(* HALT check at the top (which may consume a resume signal) and the body. *)
(* The signal server thread may run between them.                          *)
(***************************************************************************)
\* the plan ids of the plan_completed events among evs, in order
RECURSIVE CompletedPlans(_)
CompletedPlans(evs) ==
    IF evs = <<>> THEN <<>>
    ELSE (IF Head(evs).type = "plan_completed" THEN <<Head(evs).plan_id>>
          ELSE <<>>) \o CompletedPlans(Tail(evs))

Commit(r) ==
    /\ HALTED' = r.HALTED
    /\ CURRENT_PLAN' = r.CURRENT_PLAN
    /\ APPROVED_STEP_ID' = r.APPROVED_STEP_ID
    /\ CURRENT_PHASE' = r.CURRENT_PHASE
    /\ COMPLETED_PHASES' = r.COMPLETED_PHASES
    /\ PHASE_RESULTS' = r.PHASE_RESULTS
    /\ STAGED_PHASE_CACHE' = r.STAGED_PHASE_CACHE
    /\ LAST_REJECTED_INTENT' = r.LAST_REJECTED_INTENT
    /\ LAST_PLAN_DRAFT' = r.LAST_PLAN_DRAFT
    /\ CALIBRATION' = r.CALIBRATION
    /\ events' = r.events
    /\ toolCalls' = r.toolCalls
    /\ sent' = r.sent
    /\ planLog' = planLog \o CompletedPlans(r.events)

InBody == pc = "body" \/ (pc = "top" /\ ~HALTED)

PlanOfSet(plan_set, plan_id) ==
    IF \E i \in 1..Len(plan_set) : plan_set[i].plan_id = plan_id
    THEN plan_set[CHOOSE i \in 1..Len(plan_set) :
                     /\ plan_set[i].plan_id = plan_id
                     /\ \A j \in 1..(i - 1) : plan_set[j].plan_id # plan_id]
    ELSE NoPlan

\* orchestrator.py:2535-2550: the selected plan as it becomes CURRENT_PLAN,
\* with its phases when it has some and with its steps otherwise
InstalledPlan(selected, plan_id) ==
    LET phases == IF "phases" \in DOMAIN selected THEN selected.phases ELSE <<>>
    IN [plan_id |-> plan_id,
        steps |-> IF phases # <<>> THEN <<>> ELSE selected.steps,
        phases |-> phases]

\* orchestrator.py:2501-2556: HALTED and a resume signal is waiting
LoopResume ==
    /\ pc = "top" /\ HALTED /\ RESUME_REQUESTED
    /\ HALTED' = FALSE
    /\ RESUME_REQUESTED' = FALSE
    /\ JUST_RESUMED' = TRUE
    /\ LET selected == PlanOfSet(LAST_PLAN_SET, APPROVED_PLAN_ID)
       IN IF APPROVED_PLAN_ID # "none" /\ LAST_PLAN_SET # <<>> /\ selected # NoPlan
          THEN /\ CURRENT_PLAN' = InstalledPlan(selected, APPROVED_PLAN_ID)
               /\ LAST_PLAN_SET' = <<>>
               /\ APPROVED_PLAN_ID' = "none"
          ELSE UNCHANGED <<CURRENT_PLAN, LAST_PLAN_SET, APPROVED_PLAN_ID>>
    /\ pc' = "body"
    /\ UNCHANGED <<passes, passLimit>>
    /\ UNCHANGED <<APPROVED_STEP_ID, APPROVED_PHASE_ID, CURRENT_PHASE,
                   COMPLETED_PHASES, SKIPPED_PHASES, PHASE_RESULTS,
                   STAGED_PHASE_CACHE, LAST_REJECTED_INTENT, LAST_PLAN_DRAFT,
                   CALIBRATION, POLICY, events, toolCalls, sent, planLog, hpc, hsnap,
                   resume_in_halt, registry, audit>>
    /\ UNCHANGED <<queueVars, gwVars, pruneVars>>

\* orchestrator.py:2558-2585: reflect on the rejected intent, then reframe
Reflect(s, prev, env1, env2) ==
    LET reflected == [prev EXCEPT
                        !.confidence = Min(prev.confidence + ReflectBoost, Scale)]
        s1 == RecordedSend(s, reflected, NoStep, env1)
        next_mode == MODE_TRANSITIONS(prev.mode)
        decayed == [s1 EXCEPT !.CALIBRATION =
                        update_penalty(@, prev.intent, prev.mode, "decay")]
        reset == [decayed EXCEPT !.CALIBRATION =
                      update_penalty(@, prev.intent, next_mode, "reset")]
        reframed == [prev EXCEPT !.mode = next_mode,
                                 !.confidence = ReframeConfidence]
    IN IF s1.LAST_REJECTED_INTENT = NoIntent THEN s1
       ELSE IF next_mode = "none"
       THEN [decayed EXCEPT !.LAST_REJECTED_INTENT = NoIntent]
       ELSE [RecordedSend(reset, reframed, NoStep, env2)
                EXCEPT !.LAST_REJECTED_INTENT = NoIntent]

LoopReflect ==
    /\ InBody /\ LAST_REJECTED_INTENT # NoIntent
    /\ passes < passLimit
    /\ \E env1 \in EnvsFor(LAST_REJECTED_INTENT) :
       \E env2 \in EnvsFor([LAST_REJECTED_INTENT EXCEPT
                               !.mode = MODE_TRANSITIONS(@)]) :
          Commit(Reflect(Globals, LAST_REJECTED_INTENT, env1, env2))
    /\ pc' = "top"
    /\ passes' = passes + 1
    /\ UNCHANGED passLimit
    /\ UNCHANGED <<RESUME_REQUESTED, JUST_RESUMED, APPROVED_PLAN_ID,
                   APPROVED_PHASE_ID, SKIPPED_PHASES, LAST_PLAN_SET, POLICY,
                   hpc, hsnap, resume_in_halt, registry, audit>>
    /\ UNCHANGED <<queueVars, gwVars, pruneVars>>

\* orchestrator.py:2589-2603: a phased current plan is routed to the engine
PhasedRoute ==
    /\ JUST_RESUMED /\ CURRENT_PLAN # NoPlan
    /\ POLICY.phase_enabled /\ CURRENT_PLAN.phases # <<>>

LoopPhased ==
    /\ InBody /\ LAST_REJECTED_INTENT = NoIntent /\ PhasedRoute
    /\ passes < passLimit
    /\ Commit(execute_plan_with_phases(Globals, CURRENT_PLAN))
    /\ JUST_RESUMED' = FALSE
    /\ pc' = "top"
    /\ passes' = passes + 1
    /\ UNCHANGED passLimit
    /\ UNCHANGED <<RESUME_REQUESTED, APPROVED_PLAN_ID, APPROVED_PHASE_ID,
                   SKIPPED_PHASES, LAST_PLAN_SET, POLICY, hpc, hsnap,
                   resume_in_halt, registry, audit>>
    /\ UNCHANGED <<queueVars, gwVars, pruneVars>>

\* orchestrator.py:2605-2610: the step the human approved, if any
MandatedStep ==
    IF JUST_RESUMED /\ CURRENT_PLAN # NoPlan /\ APPROVED_STEP_ID # NoId
       /\ \E i \in 1..Len(CURRENT_PLAN.steps) :
              CURRENT_PLAN.steps[i].id = APPROVED_STEP_ID
    THEN CURRENT_PLAN.steps[CHOOSE i \in 1..Len(CURRENT_PLAN.steps) :
            /\ CURRENT_PLAN.steps[i].id = APPROVED_STEP_ID
            /\ \A j \in 1..(i - 1) : CURRENT_PLAN.steps[j].id # APPROVED_STEP_ID]
    ELSE NoStep

\* orchestrator.py:1856-1870
emit_resume_outcome(s, next_intent) ==
    IF s.LAST_PLAN_DRAFT = NoIntent THEN s
    ELSE [s EXCEPT !.events = Append(@, [type |-> "resume_outcome",
                                          next_intent |-> next_intent])]

\* orchestrator.py:2586-2631: ask the reasoning backend for an intent and
\* submit it.  llm is its answer: an intent, NoIntent (no answer) or an
\* answer lacking "intent" / "confidence" (kind = "malformed").
IntentPass(s, kind, llm, env) ==
    LET post == IF JUST_RESUMED THEN emit_resume_outcome(s, llm.intent) ELSE s
        halted_again == IF JUST_RESUMED THEN emit_resume_outcome(s, "halted_again")
                        ELSE s
    IN CASE kind = "intent" ->
              [RecordedSend(post, llm, MandatedStep, env)
                  EXCEPT !.APPROVED_STEP_ID = NoId]
         [] kind = "malformed" -> s
         [] OTHER -> halted_again

IntentStep(pool) ==
    /\ InBody /\ LAST_REJECTED_INTENT = NoIntent /\ ~PhasedRoute
    /\ passes < passLimit
    /\ \/ \E llm \in pool : \E env \in EnvsFor(llm) :
             Commit(IntentPass(Globals, "intent", llm, env))
       \/ \E kind \in {"malformed", "none"} :
             Commit(IntentPass(Globals, kind, NoIntent, NoEnv))
    /\ JUST_RESUMED' = FALSE
    /\ pc' = "top"
    /\ passes' = passes + 1
    /\ UNCHANGED passLimit
    /\ UNCHANGED <<RESUME_REQUESTED, APPROVED_PLAN_ID, APPROVED_PHASE_ID,
                   SKIPPED_PHASES, LAST_PLAN_SET, POLICY, hpc, hsnap,
                   resume_in_halt, registry, audit>>
    /\ UNCHANGED <<queueVars, gwVars, pruneVars>>

(***************************************************************************)
(* IntentQueue (intent_validator.py:187-249) as operators on the three     *)
(* partitions; q is the record of the partitions.                          *)
(***************************************************************************)
Queue == [pending |-> pending, approved |-> approved, rejected |-> rejected]

PendingIndex(q, intent_id) ==
    IF \E i \in 1..Len(q.pending) : q.pending[i].intent_id = intent_id
    THEN CHOOSE i \in 1..Len(q.pending) :
            /\ q.pending[i].intent_id = intent_id
            /\ \A j \in 1..(i - 1) : q.pending[j].intent_id # intent_id
    ELSE 0

RemoveAt(seq, i) == SubSeq(seq, 1, i - 1) \o SubSeq(seq, i + 1, Len(seq))

\* intent_validator.py:194-204
add_pending(q, intent_id) ==
    [q EXCEPT !.pending = Append(@, [intent_id |-> intent_id, status |-> "pending",
                                     composed_plan_id |-> NoId])]

\* reject_intent popping the intent without recording it as rejected
RejectDropping(q, intent_id) ==
    LET i == PendingIndex(q, intent_id)
    IN IF i = 0 THEN q
       ELSE [q EXCEPT !.pending = RemoveAt(@, i)]

\* intent_validator.py:206-226 (the returned flag is PendingIndex # 0)
reject_intent(q, intent_id) ==
    LET i == PendingIndex(q, intent_id)
    IN IF i = 0 THEN q
       ELSE [q EXCEPT !.pending = RemoveAt(@, i),
                      !.rejected = Append(@, [intent_id |-> intent_id,
                                              status |-> "rejected",
                                              composed_plan_id |-> NoId])]

\* approve_intent leaving the intent in pending
ApproveKeepingPending(q, intent_id, composed_plan_id) ==
    LET i == PendingIndex(q, intent_id)
    IN IF i = 0 THEN q
       ELSE [q EXCEPT !.approved = Append(@, [q.pending[i] EXCEPT
                                                !.status = "approved",
                                                !.composed_plan_id = composed_plan_id])]

\* intent_validator.py:228-249
approve_intent(q, intent_id, composed_plan_id) ==
    LET i == PendingIndex(q, intent_id)
    IN IF i = 0 THEN q
       ELSE [q EXCEPT !.pending = RemoveAt(@, i),
                      !.approved = Append(@, [q.pending[i] EXCEPT
                                                !.status = "approved",
                                                !.composed_plan_id = composed_plan_id])]

CommitQueue(q) ==
    /\ pending' = q.pending
    /\ approved' = q.approved
    /\ rejected' = q.rejected

(***************************************************************************)
(* Signal server (orchestrator.py:2172-2490).  http.server.HTTPServer      *)
(* serves one request at a time, on a thread beside the control loop.      *)
(***************************************************************************)
NoBody == [step_id |-> NoId, approve_plan_id |-> "none", approve_phase_id |-> NoId,
           skip_phases |-> <<>>, abort |-> FALSE]
NoResume == [approve_phase_id |-> NoId, step_id |-> NoId, abort |-> FALSE]
\* Bodies of POST /internal/resume
ResumeBodies ==
    {NoBody,
     [NoBody EXCEPT !.step_id = 1], [NoBody EXCEPT !.step_id = 2],
     [NoBody EXCEPT !.approve_phase_id = 2],
     [NoBody EXCEPT !.skip_phases = <<1>>],
     [NoBody EXCEPT !.abort = TRUE]}

PhaseOfPlan(plan, phase_id) ==
    LET i == IndexOfPhase(plan.phases, phase_id)
    IN IF i = 0 THEN Phase(NoId, {}, {}) ELSE plan.phases[i]

\* orchestrator.py:2428-2459: is the approved phase kept
PhaseApprovalKept(phase_id) ==
    \/ CURRENT_PLAN = NoPlan
    \/ CURRENT_PLAN.phases = <<>>
    \/ /\ IndexOfPhase(CURRENT_PLAN.phases, phase_id) # 0
       /\ check_phase_dependencies(PhaseOfPlan(CURRENT_PLAN, phase_id),
                                   COMPLETED_PHASES)

PhaseApprovalBlocked(phase_id) ==
    /\ CURRENT_PLAN # NoPlan /\ CURRENT_PLAN.phases # <<>>
    /\ IndexOfPhase(CURRENT_PLAN.phases, phase_id) # 0
    /\ ~check_phase_dependencies(PhaseOfPlan(CURRENT_PLAN, phase_id),
                                 COMPLETED_PHASES)

\* HandleResumeBody extending SKIPPED_PHASES whatever the policy says
HandleResumeBodySkippingAlways(b) ==
    /\ hpc = "idle"
    /\ Len(SKIPPED_PHASES) + Len(b.skip_phases) <= MaxSkipped
    /\ APPROVED_STEP_ID' = b.step_id
    /\ APPROVED_PLAN_ID' = b.approve_plan_id
    /\ STAGED_PHASE_CACHE' =
          IF b.approve_phase_id # NoId \/ b.skip_phases # <<>> \/ b.abort
          THEN {} ELSE STAGED_PHASE_CACHE
    /\ APPROVED_PHASE_ID' =
          IF b.approve_phase_id # NoId /\ ~PhaseApprovalKept(b.approve_phase_id)
          THEN NoId ELSE b.approve_phase_id
    /\ events' =
          IF b.approve_phase_id # NoId /\ PhaseApprovalBlocked(b.approve_phase_id)
          THEN <<[type |-> "phase_blocked", plan_id |-> CURRENT_PLAN.plan_id,
                  phase_id |-> b.approve_phase_id]>>
          ELSE events
    /\ SKIPPED_PHASES' =
          IF b.skip_phases # <<>>
          THEN SKIPPED_PHASES \o b.skip_phases ELSE SKIPPED_PHASES
    /\ hpc' = "resume"
    /\ UNCHANGED <<HALTED, RESUME_REQUESTED, JUST_RESUMED, CURRENT_PLAN,
                   CURRENT_PHASE, COMPLETED_PHASES, PHASE_RESULTS,
                   LAST_REJECTED_INTENT, LAST_PLAN_DRAFT, LAST_PLAN_SET,
                   CALIBRATION, POLICY, toolCalls, sent, planLog, pc, passes, passLimit, hsnap,
                   resume_in_halt, registry, audit>>
    /\ resumeLog' = [approve_phase_id |-> b.approve_phase_id,
                     step_id |-> b.step_id, abort |-> b.abort]
    /\ UNCHANGED <<pruneIn, pruneOut, planning, calLog>>
    /\ UNCHANGED <<queueVars, gwVars>>

\* orchestrator.py:2404-2475: the body of the request is read and applied
HandleResumeBody(b) ==
    /\ hpc = "idle"
    /\ Len(SKIPPED_PHASES) + Len(b.skip_phases) <= MaxSkipped
    /\ APPROVED_STEP_ID' = b.step_id
    /\ APPROVED_PLAN_ID' = b.approve_plan_id
    /\ STAGED_PHASE_CACHE' =
          IF b.approve_phase_id # NoId \/ b.skip_phases # <<>> \/ b.abort
          THEN {} ELSE STAGED_PHASE_CACHE
    /\ APPROVED_PHASE_ID' =
          IF b.approve_phase_id # NoId /\ ~PhaseApprovalKept(b.approve_phase_id)
          THEN NoId ELSE b.approve_phase_id
    /\ events' =
          IF b.approve_phase_id # NoId /\ PhaseApprovalBlocked(b.approve_phase_id)
          THEN <<[type |-> "phase_blocked", plan_id |-> CURRENT_PLAN.plan_id,
                  phase_id |-> b.approve_phase_id]>>
          ELSE events
    /\ SKIPPED_PHASES' =
          IF b.skip_phases # <<>> /\ POLICY.allow_phase_skipping
          THEN SKIPPED_PHASES \o b.skip_phases ELSE SKIPPED_PHASES
    /\ hpc' = "resume"
    /\ UNCHANGED <<HALTED, RESUME_REQUESTED, JUST_RESUMED, CURRENT_PLAN,
                   CURRENT_PHASE, COMPLETED_PHASES, PHASE_RESULTS,
                   LAST_REJECTED_INTENT, LAST_PLAN_DRAFT, LAST_PLAN_SET,
                   CALIBRATION, POLICY, toolCalls, sent, planLog, pc, passes, passLimit, hsnap,
                   resume_in_halt, registry, audit>>
    /\ resumeLog' = [approve_phase_id |-> b.approve_phase_id,
                     step_id |-> b.step_id, abort |-> b.abort]
    /\ UNCHANGED <<pruneIn, pruneOut, planning, calLog>>
    /\ UNCHANGED <<queueVars, gwVars>>

\* orchestrator.py:2407-2410, 2474-2475: the body cannot be read, nothing is
\* applied (bare except)
HandleResumeUnreadable ==
    /\ hpc = "idle"
    /\ hpc' = "resume"
    /\ UNCHANGED <<HALTED, RESUME_REQUESTED, JUST_RESUMED, CURRENT_PLAN,
                   APPROVED_STEP_ID, APPROVED_PLAN_ID, APPROVED_PHASE_ID,
                   CURRENT_PHASE, COMPLETED_PHASES, SKIPPED_PHASES,
                   PHASE_RESULTS, STAGED_PHASE_CACHE, LAST_REJECTED_INTENT,
                   LAST_PLAN_DRAFT, LAST_PLAN_SET, CALIBRATION, POLICY, events,
                   toolCalls, sent, planLog, pc, passes, passLimit, hsnap, resume_in_halt, registry, audit>>
    /\ resumeLog' = NoResume
    /\ UNCHANGED <<pruneIn, pruneOut, planning, calLog>>
    /\ UNCHANGED <<queueVars, gwVars>>

\* HandleResumeFlag releasing the HALT itself instead of signalling the loop
HandleResumeFlagReleasing ==
    /\ hpc = "resume"
    /\ HALTED' = FALSE
    /\ resume_in_halt' = HALTED
    /\ hpc' = "idle"
    /\ UNCHANGED <<RESUME_REQUESTED, JUST_RESUMED, CURRENT_PLAN, APPROVED_STEP_ID,
                   APPROVED_PLAN_ID, APPROVED_PHASE_ID, CURRENT_PHASE,
                   COMPLETED_PHASES, SKIPPED_PHASES, PHASE_RESULTS,
                   STAGED_PHASE_CACHE, LAST_REJECTED_INTENT, LAST_PLAN_DRAFT,
                   LAST_PLAN_SET, CALIBRATION, POLICY, events, toolCalls, sent, planLog,
                   pc, passes, passLimit, hsnap, registry, audit>>
    /\ UNCHANGED <<queueVars, gwVars, pruneVars>>

\* orchestrator.py:2477-2480: the signal is handed to the control loop
HandleResumeFlag ==
    /\ hpc = "resume"
    /\ RESUME_REQUESTED' = TRUE
    /\ resume_in_halt' = HALTED
    /\ hpc' = "idle"
    /\ UNCHANGED <<HALTED, JUST_RESUMED, CURRENT_PLAN, APPROVED_STEP_ID,
                   APPROVED_PLAN_ID, APPROVED_PHASE_ID, CURRENT_PHASE,
                   COMPLETED_PHASES, SKIPPED_PHASES, PHASE_RESULTS,
                   STAGED_PHASE_CACHE, LAST_REJECTED_INTENT, LAST_PLAN_DRAFT,
                   LAST_PLAN_SET, CALIBRATION, POLICY, events, toolCalls, sent, planLog,
                   pc, passes, passLimit, hsnap, registry, audit>>
    /\ UNCHANGED <<queueVars, gwVars, pruneVars>>

(***************************************************************************)
(* Approval bridge and composed plan registry.  approval_bridge.py and     *)
(* composed_plan_builder.py are imported by orchestrator.py but are not    *)
(* among the sources; they are modelled from the design document: the      *)
(* bridge checks its guards against the orchestrator state it is handed    *)
(* (the plan is pending, the orchestrator is halted), moves the plan to    *)
(* executing, installs it as the current plan and leaves HALTED alone.     *)
(***************************************************************************)
ComposedIds == 1..MaxIds
ComposedPlan(pid) ==
    [plan_id |-> "composed", steps |-> <<>>,
     phases |-> <<Phase(1, {}, {}), Phase(2, {1}, {})>>]

approve_composed_plan(pid, reg, state) ==
    IF reg[pid] = "pending" /\ state.HALTED
    THEN [success |-> TRUE,
          registry |-> [reg EXCEPT ![pid] = "executing"],
          state |-> [state EXCEPT !.CURRENT_PLAN = ComposedPlan(pid),
                                  !.CURRENT_PHASE = NoId,
                                  !.APPROVED_PHASE_ID = NoId]]
    ELSE [success |-> FALSE, registry |-> reg, state |-> state]

compose_from_intent(reg, intent_id, ok) ==
    IF ok /\ reg[intent_id] = "none" THEN [reg EXCEPT ![intent_id] = "pending"]
    ELSE reg

NoSnapshot == [CURRENT_PLAN |-> NoPlan, HALTED |-> FALSE, CURRENT_PHASE |-> NoId,
               APPROVED_PHASE_ID |-> NoId]

\* orchestrator.py:2329-2375: the snapshot is taken and the bridge is called
HandleApproveComposed(pid) ==
    /\ hpc = "idle"
    /\ LET state == [CURRENT_PLAN |-> CURRENT_PLAN, HALTED |-> HALTED,
                     CURRENT_PHASE |-> CURRENT_PHASE,
                     APPROVED_PHASE_ID |-> APPROVED_PHASE_ID]
           result == approve_composed_plan(pid, registry, state)
       IN /\ result.success
          /\ registry' = result.registry
          /\ hsnap' = result.state
          /\ events' = <<[type |-> "composed_plan_approved",
                          plan_id |-> "composed"]>>
    /\ hpc' = "approve"
    /\ UNCHANGED <<HALTED, RESUME_REQUESTED, JUST_RESUMED, CURRENT_PLAN,
                   APPROVED_STEP_ID, APPROVED_PLAN_ID, APPROVED_PHASE_ID,
                   CURRENT_PHASE, COMPLETED_PHASES, SKIPPED_PHASES,
                   PHASE_RESULTS, STAGED_PHASE_CACHE, LAST_REJECTED_INTENT,
                   LAST_PLAN_DRAFT, LAST_PLAN_SET, CALIBRATION, POLICY,
                   toolCalls, sent, planLog, pc, passes, passLimit, resume_in_halt, audit>>
    /\ UNCHANGED <<queueVars, gwVars, pruneVars>>

\* orchestrator.py:2377-2392: the globals are updated from the snapshot
HandleApproveWriteBack ==
    /\ hpc = "approve"
    /\ CURRENT_PLAN' = hsnap.CURRENT_PLAN
    /\ HALTED' = hsnap.HALTED
    /\ CURRENT_PHASE' = hsnap.CURRENT_PHASE
    /\ APPROVED_PHASE_ID' = hsnap.APPROVED_PHASE_ID
    /\ hsnap' = NoSnapshot
    /\ hpc' = "idle"
    /\ UNCHANGED <<RESUME_REQUESTED, JUST_RESUMED, APPROVED_STEP_ID,
                   APPROVED_PLAN_ID, COMPLETED_PHASES, SKIPPED_PHASES,
                   PHASE_RESULTS, STAGED_PHASE_CACHE, LAST_REJECTED_INTENT,
                   LAST_PLAN_DRAFT, LAST_PLAN_SET, CALIBRATION, POLICY, events,
                   toolCalls, sent, planLog, pc, passes, passLimit, resume_in_halt, registry, audit>>
    /\ UNCHANGED <<queueVars, gwVars, pruneVars>>

\* An IntentQueue call: its arguments, what it returned and the partitions it
\* was applied to
Call(op, intent_id, ok, before) ==
    [op |-> op, intent_id |-> intent_id, ok |-> ok, before |-> before]

\* HandleIntent approving the intent it has just queued
HandleIntentApproving ==
    /\ hpc = "idle"
    /\ next_uuid <= MaxIntents
    /\ \E composed \in BOOLEAN :
          registry' = compose_from_intent(registry, next_uuid, composed)
    /\ CommitQueue(approve_intent(add_pending(Queue, next_uuid), next_uuid, NoId))
    /\ lastCall' = Call("add_pending", next_uuid, TRUE, Queue)
    /\ next_uuid' = next_uuid + 1
    /\ UNCHANGED succeeded
    /\ UNCHANGED <<HALTED, RESUME_REQUESTED, JUST_RESUMED, CURRENT_PLAN,
                   APPROVED_STEP_ID, APPROVED_PLAN_ID, APPROVED_PHASE_ID,
                   CURRENT_PHASE, COMPLETED_PHASES, SKIPPED_PHASES,
                   PHASE_RESULTS, STAGED_PHASE_CACHE, LAST_REJECTED_INTENT,
                   LAST_PLAN_DRAFT, LAST_PLAN_SET, CALIBRATION, POLICY, events,
                   toolCalls, sent, planLog, pc, passes, passLimit, hpc, hsnap, resume_in_halt, audit>>
    /\ UNCHANGED <<gwVars, pruneVars>>

\* orchestrator.py:2234-2267 with intent_validator.py:276-325: POST /intent
\* with a schema-valid payload (an invalid one is answered 422 and changes
\* nothing); composed says whether compose_from_intent produced a plan
HandleIntent ==
    /\ hpc = "idle"
    /\ next_uuid <= MaxIntents
    /\ \E composed \in BOOLEAN :
          registry' = compose_from_intent(registry, next_uuid, composed)
    /\ CommitQueue(add_pending(Queue, next_uuid))
    /\ lastCall' = Call("add_pending", next_uuid, TRUE, Queue)
    /\ next_uuid' = next_uuid + 1
    /\ UNCHANGED succeeded
    /\ UNCHANGED <<HALTED, RESUME_REQUESTED, JUST_RESUMED, CURRENT_PLAN,
                   APPROVED_STEP_ID, APPROVED_PLAN_ID, APPROVED_PHASE_ID,
                   CURRENT_PHASE, COMPLETED_PHASES, SKIPPED_PHASES,
                   PHASE_RESULTS, STAGED_PHASE_CACHE, LAST_REJECTED_INTENT,
                   LAST_PLAN_DRAFT, LAST_PLAN_SET, CALIBRATION, POLICY, events,
                   toolCalls, sent, planLog, pc, passes, passLimit, hpc, hsnap, resume_in_halt, audit>>
    /\ UNCHANGED <<gwVars, pruneVars>>

\* orchestrator.py:2269-2327: POST /governance/approve/<intent_id> for an id
\* found in pending (any other id is answered 404 and changes nothing)
HandleApproveIntent(intent_id) ==
    /\ hpc = "idle"
    /\ PendingIndex(Queue, intent_id) # 0
    /\ \E composed \in BOOLEAN :
          /\ registry' = compose_from_intent(registry, intent_id, composed)
          /\ CommitQueue(approve_intent(Queue, intent_id,
                                        IF composed THEN intent_id ELSE NoId))
    /\ lastCall' = Call("approve_intent", intent_id, TRUE, Queue)
    /\ succeeded' = [succeeded EXCEPT !.ok[intent_id] = @ + 1]
    /\ audit' = Append(audit, [operation |-> "intent_approved",
                               intent_id |-> intent_id])
    /\ UNCHANGED next_uuid
    /\ UNCHANGED <<HALTED, RESUME_REQUESTED, JUST_RESUMED, CURRENT_PLAN,
                   APPROVED_STEP_ID, APPROVED_PLAN_ID, APPROVED_PHASE_ID,
                   CURRENT_PHASE, COMPLETED_PHASES, SKIPPED_PHASES,
                   PHASE_RESULTS, STAGED_PHASE_CACHE, LAST_REJECTED_INTENT,
                   LAST_PLAN_DRAFT, LAST_PLAN_SET, CALIBRATION, POLICY, events,
                   toolCalls, sent, planLog, pc, passes, passLimit, hpc, hsnap, resume_in_halt>>
    /\ UNCHANGED <<gwVars, pruneVars>>

(***************************************************************************)
(* The orchestrator process: control loop and signal server                *)
(***************************************************************************)
ApiKeys == {"sk_test_12345", "sk_test_abcde", "sk_bogus"}
NoChecks == [key |-> FALSE, rate |-> FALSE, size |-> FALSE, perm |-> FALSE]
NoRequest == [seq |-> 0, via |-> "none", api_key |-> "none", bearer |-> FALSE,
              method |-> "none", path |-> "none", header_size |-> 0,
              body_size |-> 0, status |-> 0, status_copy |-> 0,
              handler |-> FALSE, checks |-> NoChecks]
NoPruneInput ==
    [plans |-> <<>>,
     policy |-> [min_plan_confidence |-> 0, sandbox_only_actions |-> {},
                 forbidden_actions |-> {}]]
NoPruneOutput == [done |-> FALSE, approved |-> <<>>, rejections |-> <<>>]

InitQueue ==
    /\ pending = <<>> /\ approved = <<>> /\ rejected = <<>>
    /\ next_uuid = 1
    /\ lastCall = Call("none", NoId, FALSE, Queue)
    /\ succeeded = [calls |-> 0, ok |-> [i \in ComposedIds |-> 0]]

IdleGateway ==
    /\ now = 0
    /\ request_history = [k \in ApiKeys |-> <<>>]
    /\ request_history_copy = [k \in ApiKeys |-> <<>>]
    /\ limiterLog = [k \in ApiKeys |-> <<>>]
    /\ lastReq = NoRequest

NoPlanning == [fn |-> "none", path |-> "none", returned |-> "none",
               before |-> <<>>, answers |-> <<>>]

IdlePrune ==
    /\ pruneIn = NoPruneInput /\ pruneOut = NoPruneOutput
    /\ planning = NoPlanning /\ calLog = <<>> /\ resumeLog = NoResume

\* orchestrator.py:37-90 and the STARTUP block: the globals as the module
\* leaves them before the first pass of the loop
InitOrchestrator ==
    /\ HALTED = FALSE /\ RESUME_REQUESTED = FALSE /\ JUST_RESUMED = FALSE
    /\ CURRENT_PLAN = NoPlan
    /\ APPROVED_STEP_ID = NoId /\ APPROVED_PLAN_ID = "none"
    /\ APPROVED_PHASE_ID = NoId /\ CURRENT_PHASE = NoId
    /\ COMPLETED_PHASES = <<>> /\ SKIPPED_PHASES = <<>>
    /\ PHASE_RESULTS = {} /\ STAGED_PHASE_CACHE = {}
    /\ LAST_REJECTED_INTENT = NoIntent /\ LAST_PLAN_DRAFT = NoIntent
    /\ LAST_PLAN_SET = <<>>
    /\ CALIBRATION = [k \in CalKeys |-> NoPenalty]
    /\ POLICY \in PolicyPool
    /\ events = <<>> /\ toolCalls = <<>> /\ sent = <<>> /\ planLog = <<>>
    /\ pc = "top" /\ passes = 0 /\ passLimit = MaxPasses /\ hpc = "idle" /\ hsnap = NoSnapshot
    /\ resume_in_halt = FALSE
    /\ registry = [i \in ComposedIds |-> "none"]
    /\ audit = <<>>

Init == InitOrchestrator /\ InitQueue /\ IdleGateway /\ IdlePrune

LoopIntent == IntentStep(LlmIntents)

Next ==
    \/ LoopResume
    \/ LoopReflect
    \/ LoopPhased
    \/ LoopIntent
    \/ \E b \in ResumeBodies : HandleResumeBody(b)
    \/ HandleResumeUnreadable
    \/ HandleResumeFlag
    \/ \E pid \in ComposedIds : HandleApproveComposed(pid)
    \/ HandleApproveWriteBack
    \/ HandleIntent
    \/ \E intent_id \in ComposedIds : HandleApproveIntent(intent_id)

Spec == Init /\ [][Next]_vars

(***************************************************************************)
(* send_intent examined on its own: the control loop alone, started from   *)
(* the states a pass can begin in, with the full range of intents.         *)
(***************************************************************************)
\* orchestrator.py:1324-1349: calibration seeded from the event history
RECURSIVE bootstrap_memory(_, _)
bootstrap_memory(cal, history) ==
    IF history = <<>> THEN cal
    ELSE LET event == Head(history)
             seeded ==
                 IF event.type = "action_invocation" /\ event.status = "success"
                 THEN update_penalty(cal, event.tool, "reason-only", "recovery")
                 ELSE IF event.type = "gate_rejection"
                 THEN update_penalty(cal, event.intent, event.mode, "decay")
                 ELSE cal
         IN bootstrap_memory(seeded, Tail(history))

HistoryRejection(intent, mode) ==
    [type |-> "gate_rejection", intent |-> intent, mode |-> mode,
     tool |-> "none", status |-> "none"]
HistorySuccess(tool) ==
    [type |-> "action_invocation", intent |-> "none", mode |-> "none",
     tool |-> tool, status |-> "success"]
\* Contents of the history file at startup
Histories ==
    {<<>>,
     <<HistoryRejection("apply_patch", "reason-only")>>,
     <<HistoryRejection("apply_patch", "simulate"),
       HistoryRejection("apply_patch", "simulate")>>,
     <<HistorySuccess("apply_patch")>>}

LoopSend == IntentStep(SendIntents)

InitSend ==
    /\ HALTED = FALSE /\ RESUME_REQUESTED = FALSE
    /\ JUST_RESUMED \in BOOLEAN
    /\ CURRENT_PLAN \in {NoPlan, FlatPlan}
    /\ APPROVED_STEP_ID \in {NoId, 1, 2}
    /\ APPROVED_PLAN_ID = "none"
    /\ APPROVED_PHASE_ID = NoId /\ CURRENT_PHASE = NoId
    /\ COMPLETED_PHASES = <<>> /\ SKIPPED_PHASES = <<>>
    /\ PHASE_RESULTS = {} /\ STAGED_PHASE_CACHE = {}
    /\ LAST_REJECTED_INTENT = NoIntent /\ LAST_PLAN_DRAFT = NoIntent
    /\ LAST_PLAN_SET = <<>>
    /\ \E h \in Histories :
          CALIBRATION = bootstrap_memory([k \in CalKeys |-> NoPenalty], h)
    /\ POLICY = [phase_enabled |-> FALSE, allow_phase_skipping |-> TRUE,
                 enable_predictive_staging |-> FALSE, planning_forbidden |-> FALSE]
    /\ events = <<>> /\ toolCalls = <<>> /\ sent = <<>> /\ planLog = <<>>
    /\ pc = "top" /\ passes = 0 /\ passLimit = MaxPasses /\ hpc = "idle" /\ hsnap = NoSnapshot
    /\ resume_in_halt = FALSE
    /\ registry = [i \in ComposedIds |-> "none"]
    /\ audit = <<>>
    /\ InitQueue /\ IdleGateway /\ IdlePrune

NextSend == LoopSend \/ LoopReflect

SpecSend == InitSend /\ [][NextSend]_vars

(***************************************************************************)
(* The IntentQueue on its own (intent_validator.py): validate_intent and   *)
(* any sequence of approve_intent / reject_intent calls on any id.         *)
(***************************************************************************)
MaxCalls == 4       \* approve / reject calls made on the queue

\* intent_validator.py:276-325: validate_intent on a schema-valid payload
QueueValidate ==
    /\ next_uuid <= MaxIds
    /\ \E composed \in BOOLEAN :
          registry' = compose_from_intent(registry, next_uuid, composed)
    /\ CommitQueue(add_pending(Queue, next_uuid))
    /\ lastCall' = Call("add_pending", next_uuid, TRUE, Queue)
    /\ next_uuid' = next_uuid + 1
    /\ UNCHANGED succeeded
    /\ UNCHANGED <<HALTED, RESUME_REQUESTED, JUST_RESUMED, CURRENT_PLAN,
                   APPROVED_STEP_ID, APPROVED_PLAN_ID, APPROVED_PHASE_ID,
                   CURRENT_PHASE, COMPLETED_PHASES, SKIPPED_PHASES,
                   PHASE_RESULTS, STAGED_PHASE_CACHE, LAST_REJECTED_INTENT,
                   LAST_PLAN_DRAFT, LAST_PLAN_SET, CALIBRATION, POLICY, events,
                   toolCalls, sent, planLog, pc, passes, passLimit, hpc, hsnap, resume_in_halt, audit>>
    /\ UNCHANGED <<gwVars, pruneVars>>

\* One approve_intent / reject_intent call and its returned flag
QueueCall(op, intent_id, q) ==
    /\ succeeded.calls < MaxCalls
    /\ CommitQueue(q)
    /\ lastCall' = Call(op, intent_id, PendingIndex(Queue, intent_id) # 0, Queue)
    /\ succeeded' = [succeeded EXCEPT
                       !.calls = @ + 1,
                       !.ok[intent_id] = IF q # Queue THEN @ + 1 ELSE @]
    /\ UNCHANGED <<next_uuid, orchVars, gwVars, pruneVars>>

\* intent_validator.py:231-249
QueueApprove(intent_id) ==
    \E composed_plan_id \in {NoId, intent_id} :
        QueueCall("approve_intent", intent_id,
                  approve_intent(Queue, intent_id, composed_plan_id))

\* intent_validator.py:208-229
QueueReject(intent_id) ==
    QueueCall("reject_intent", intent_id, reject_intent(Queue, intent_id))

InitIdleOrchestrator ==
    /\ InitOrchestrator
    /\ POLICY = [phase_enabled |-> FALSE, allow_phase_skipping |-> TRUE,
                 enable_predictive_staging |-> FALSE, planning_forbidden |-> FALSE]

InitQueueSpec == InitIdleOrchestrator /\ InitQueue /\ IdleGateway /\ IdlePrune

NextQueue ==
    \/ QueueValidate
    \/ \E intent_id \in ComposedIds : QueueApprove(intent_id)
    \/ \E intent_id \in ComposedIds : QueueReject(intent_id)

SpecQueue == InitQueueSpec /\ [][NextQueue]_vars

(***************************************************************************)
(* Gateway security context (gateway_auth.py and its copy                  *)
(* gateway/gateway_auth.py) and the middleware of gateway.py.  Time is     *)
(* counted in clock ticks, WindowTicks of them to WINDOW_SIZE (1.0 s).     *)
(***************************************************************************)
WindowTicks == 2    \* clock ticks in one WINDOW_SIZE
MaxTime == 3        \* the clock stops here
MaxRequests == 12   \* check_and_record calls made on the rate limiter
MaxGwRequests == 1  \* requests sent through the security context

MAX_REQUESTS_PER_SECOND == 10
MAX_BODY_SIZE == 1048576
MAX_HEADER_SIZE == 8192
MAX_URL_LENGTH == 2048
VALID_TEST_KEYS == {"sk_test_12345", "sk_test_abcde", "sk_test_valid",
                    "sk_test_validation_key_1234567890ab"}
VALID_PROD_KEYS == {}
FORBIDDEN_METHODS == {"PUT", "DELETE", "PATCH"}
FORBIDDEN_PATHS == {"/internal/", "/approve", "/resume", "/release-halt"}
ALLOWED_ENDPOINTS ==
    {<<"POST", "/intent">>, <<"GET", "/governance/orchestrator-state">>,
     <<"GET", "/governance/plans">>, <<"GET", "/governance/plans/{plan_id}">>,
     <<"GET", "/governance/intents">>, <<"GET", "/governance/audit">>,
     <<"GET", "/healthz">>, <<"GET", "/readyz">>}

\* str.startswith
StartsWith(str, prefix) ==
    Len(str) >= Len(prefix) /\ SubSeq(str, 1, Len(prefix)) = prefix

\* path.split('?', 1)[0]
StripQuery(path) ==
    LET marks == {i \in 1..Len(path) : SubSeq(path, i, i) = "?"}
    IN IF marks = {} THEN path
       ELSE SubSeq(path, 1, (CHOOSE i \in marks : \A j \in marks : i <= j) - 1)

\* gateway_auth.py:62-84 (the copy, gateway/gateway_auth.py:22-31, is the same)
validate(api_key) ==
    /\ api_key # ""
    /\ api_key \in VALID_TEST_KEYS \cup VALID_PROD_KEYS

Recent(timestamps, t) == SelectSeq(timestamps, LAMBDA ts : t - ts < WindowTicks)

\* check_and_record admitting one request more than the limit
CheckAndRecordOffByOne(history, api_key, t) ==
    LET kept == Recent(history[api_key], t)
    IN IF Len(kept) > MAX_REQUESTS_PER_SECOND
       THEN [allowed |-> FALSE, history |-> [history EXCEPT ![api_key] = kept]]
       ELSE [allowed |-> TRUE,
             history |-> [history EXCEPT ![api_key] = Append(kept, t)]]

\* check_and_record counting the recent requests of every key together
CheckAndRecordShared(history, api_key, t) ==
    LET kept == Recent(history[api_key], t)
        others == {k \in DOMAIN history :
                      k # api_key /\ Recent(history[k], t) # <<>>}
    IN IF Len(kept) >= MAX_REQUESTS_PER_SECOND \/ (kept # <<>> /\ others # {})
       THEN [allowed |-> FALSE, history |-> [history EXCEPT ![api_key] = kept]]
       ELSE [allowed |-> TRUE,
             history |-> [history EXCEPT ![api_key] = Append(kept, t)]]

\* gateway_auth.py:119-147
check_and_record(history, api_key, t) ==
    LET kept == Recent(history[api_key], t)
    IN IF Len(kept) >= MAX_REQUESTS_PER_SECOND
       THEN [allowed |-> FALSE, history |-> [history EXCEPT ![api_key] = kept]]
       ELSE [allowed |-> TRUE,
             history |-> [history EXCEPT ![api_key] = Append(kept, t)]]

\* gateway/gateway_auth.py:49-57
check_and_record_copy(history, api_key, t) ==
    LET kept == SelectSeq(history[api_key], LAMBDA ts : t - ts < WindowTicks)
    IN IF Len(kept) >= MAX_REQUESTS_PER_SECOND
       THEN [allowed |-> FALSE, history |-> [history EXCEPT ![api_key] = kept]]
       ELSE [allowed |-> TRUE,
             history |-> [history EXCEPT ![api_key] = Append(kept, t)]]

\* gateway_auth.py:186-207 (the copy, gateway/gateway_auth.py:65-73, is the
\* same); header_size is the sum over the headers
size_validate_request(method, url, header_size, body_size) ==
    IF Len(url) > MAX_URL_LENGTH THEN FALSE
    ELSE IF header_size > MAX_HEADER_SIZE THEN FALSE
    ELSE IF method \in {"POST", "PUT", "PATCH"} /\ body_size > MAX_BODY_SIZE
    THEN FALSE
    ELSE TRUE

\* check_permission deciding on the path alone
CheckPermissionByPathOnly(method, path) ==
    \/ StartsWith(path, "/governance/plans/")
    \/ \E e \in ALLOWED_ENDPOINTS : e[2] = path

\* gateway_auth.py:262-286
check_permission(method, path) ==
    IF method \in FORBIDDEN_METHODS THEN FALSE
    ELSE IF \E forbidden_path \in FORBIDDEN_PATHS : StartsWith(path, forbidden_path)
    THEN FALSE
    ELSE IF method = "GET" /\ StartsWith(path, "/governance/plans/") THEN TRUE
    ELSE <<method, path>> \in ALLOWED_ENDPOINTS

\* gateway/gateway_auth.py:90-102: the copy strips the query string first
check_permission_copy(method, raw_path) ==
    LET path == StripQuery(raw_path)
    IN IF method \in FORBIDDEN_METHODS THEN FALSE
       ELSE IF \E forbidden \in FORBIDDEN_PATHS : StartsWith(path, forbidden)
       THEN FALSE
       ELSE IF method = "GET" /\ StartsWith(path, "/governance/plans/") THEN TRUE
       ELSE <<method, path>> \in ALLOWED_ENDPOINTS

\* gateway_auth.py:304-346
validate_request(history, req, t) ==
    LET limited == check_and_record(history, req.api_key, t)
    IN IF ~validate(req.api_key) THEN [status |-> 401, history |-> history]
       ELSE IF ~limited.allowed THEN [status |-> 429, history |-> limited.history]
       ELSE IF ~size_validate_request(req.method, req.path, req.header_size,
                                      req.body_size)
       THEN [status |-> 400, history |-> limited.history]
       ELSE IF ~check_permission(req.method, req.path)
       THEN [status |-> 403, history |-> limited.history]
       ELSE [status |-> 200, history |-> limited.history]

\* gateway/gateway_auth.py:112-125
validate_request_copy(history, req, t) ==
    LET limited == check_and_record_copy(history, req.api_key, t)
    IN IF ~validate(req.api_key) THEN [status |-> 401, history |-> history]
       ELSE IF ~limited.allowed THEN [status |-> 429, history |-> limited.history]
       ELSE IF ~size_validate_request(req.method, req.path, req.header_size,
                                      req.body_size)
       THEN [status |-> 400, history |-> limited.history]
       ELSE IF ~check_permission_copy(req.method, req.path)
       THEN [status |-> 403, history |-> limited.history]
       ELSE [status |-> 200, history |-> limited.history]

\* gateway.py:240-241: paths served without authentication
AuthExemptPaths == {"/healthz", "/openapi.json", "/docs", "/redoc"}

\* gateway.py:233-306.  block_mutation_verbs_middleware is registered last
\* and so runs first; auth_and_rate_limit_middleware hands request.url.path
\* and a body size of 0 to validate_request.  handler: was call_next reached.
gateway_middleware(history, req, t) ==
    LET seen == [req EXCEPT !.path = StripQuery(req.path), !.body_size = 0]
        checked == validate_request(history, seen, t)
    IN IF req.method \in {"PUT", "DELETE", "PATCH"}
       THEN [status |-> 403, handler |-> FALSE, history |-> history]
       ELSE IF seen.path \in AuthExemptPaths
       THEN [status |-> 200, handler |-> TRUE, history |-> history]
       ELSE IF ~req.bearer
       THEN [status |-> 401, handler |-> FALSE, history |-> history]
       ELSE [status |-> checked.status, handler |-> checked.status = 200,
             history |-> checked.history]

(***************************************************************************)
(* The rate limiter alone: calls of check_and_record on both copies, and   *)
(* the clock.                                                              *)
(***************************************************************************)
ValidKeys == {k \in ApiKeys : validate(k)}

LimiterCalls == Len(limiterLog["sk_test_12345"]) + Len(limiterLog["sk_test_abcde"])

Tick ==
    /\ now < MaxTime
    /\ now' = now + 1
    /\ UNCHANGED <<request_history, request_history_copy, limiterLog, lastReq>>
    /\ UNCHANGED <<orchVars, queueVars, pruneVars>>

LimiterCall(api_key) ==
    LET r == check_and_record(request_history, api_key, now)
        c == check_and_record_copy(request_history_copy, api_key, now)
    IN /\ LimiterCalls < MaxRequests
       /\ request_history' = r.history
       /\ request_history_copy' = c.history
       /\ limiterLog' = [limiterLog EXCEPT ![api_key] =
              Append(@, [ts |-> now, allowed |-> r.allowed,
                         allowed_copy |-> c.allowed])]
       /\ UNCHANGED <<now, lastReq>>
       /\ UNCHANGED <<orchVars, queueVars, pruneVars>>

InitLimiter == InitIdleOrchestrator /\ InitQueue /\ IdleGateway /\ IdlePrune

NextLimiter ==
    \/ Tick
    \/ \E api_key \in ValidKeys : LimiterCall(api_key)

SpecLimiter == InitLimiter /\ [][NextLimiter]_vars

(***************************************************************************)
(* The security context and the gateway middleware: one request, against   *)
(* a limiter that has already seen some traffic for the key.               *)
(***************************************************************************)
RECURSIVE Repeat(_, _)
Repeat(str, n) ==
    IF n = 0 THEN ""
    ELSE IF n % 2 = 0 THEN LET half == Repeat(str, n \div 2) IN half \o half
    ELSE str \o Repeat(str, n - 1)

LongUrl == "/" \o Repeat("a", MAX_URL_LENGTH)

RequestKeys == {"sk_test_12345", "sk_bogus", ""}
RequestMethods == {"GET", "POST", "PUT", "DELETE", "PATCH"}
RequestPaths ==
    {"/intent", "/intent?source=cli", "/healthz", "/readyz",
     "/governance/plans/p1", "/governance/approve/1",
     "/internal/resume", "/approve", "/resume", "/unknown", LongUrl}
HeaderSizes == {100, MAX_HEADER_SIZE + 1}
BodySizes == {0, MAX_BODY_SIZE + 1}

Requests ==
    [api_key : RequestKeys, bearer : BOOLEAN, method : RequestMethods,
     path : RequestPaths, header_size : HeaderSizes, body_size : BodySizes]

\* the four checks of the request, each taken on its own
ChecksOf(req, key_ok) ==
    [key |-> key_ok,
     rate |-> key_ok => check_and_record(request_history, req.api_key, now).allowed,
     size |-> size_validate_request(req.method, req.path, req.header_size,
                                    req.body_size),
     perm |-> check_permission(req.method, req.path)]

LogLimiter(req, main_called, copy_called) ==
    IF validate(req.api_key) /\ (main_called \/ copy_called)
    THEN [limiterLog EXCEPT ![req.api_key] = Append(@,
            [ts |-> now,
             allowed |-> main_called =>
                 check_and_record(request_history, req.api_key, now).allowed,
             allowed_copy |-> copy_called =>
                 check_and_record_copy(request_history_copy, req.api_key,
                                       now).allowed])]
    ELSE limiterLog

\* a caller of validate_request, gateway/gateway.py:55-56, 80-82 and
\* 126-133 (the approval proxy), on either copy of the security context;
\* handler: is the request forwarded to the orchestrator
ValidateRequest(req) ==
    LET r == validate_request(request_history, req, now)
        c == validate_request_copy(request_history_copy, req, now)
    IN /\ lastReq.seq < MaxGwRequests
       /\ req.bearer
       /\ request_history' = r.history
       /\ request_history_copy' = c.history
       /\ limiterLog' = LogLimiter(req, TRUE, TRUE)
       /\ lastReq' = [seq |-> lastReq.seq + 1, via |-> "validate_request",
                      api_key |-> req.api_key, bearer |-> req.bearer,
                      method |-> req.method, path |-> req.path,
                      header_size |-> req.header_size,
                      body_size |-> req.body_size,
                      status |-> r.status, status_copy |-> c.status,
                      handler |-> r.status = 200,
                      checks |-> ChecksOf(req, validate(req.api_key))]
       /\ UNCHANGED now
       /\ UNCHANGED <<orchVars, queueVars, pruneVars>>

\* a request to the FastAPI gateway, gateway.py:233-306
GatewayRequest(req) ==
    LET g == gateway_middleware(request_history, req, now)
    IN /\ lastReq.seq < MaxGwRequests
       /\ request_history' = g.history
       /\ limiterLog' = LogLimiter(req, g.history # request_history, FALSE)
       /\ lastReq' = [seq |-> lastReq.seq + 1, via |-> "gateway",
                      api_key |-> req.api_key, bearer |-> req.bearer,
                      method |-> req.method, path |-> req.path,
                      header_size |-> req.header_size,
                      body_size |-> req.body_size,
                      status |-> g.status, status_copy |-> 0,
                      handler |-> g.handler,
                      checks |-> ChecksOf([req EXCEPT !.path = StripQuery(req.path)],
                                          req.bearer /\ validate(req.api_key))]
       /\ UNCHANGED <<now, request_history_copy>>
       /\ UNCHANGED <<orchVars, queueVars, pruneVars>>

\* the limiter after n admitted requests of the key at time 0
Preloaded(n) ==
    [k \in ApiKeys |-> IF k = "sk_test_12345" THEN [i \in 1..n |-> 0] ELSE <<>>]

InitGateway ==
    /\ InitIdleOrchestrator /\ InitQueue /\ IdlePrune
    /\ now = 0
    /\ lastReq = NoRequest
    /\ \E n \in {0, MAX_REQUESTS_PER_SECOND - 1, MAX_REQUESTS_PER_SECOND} :
          /\ request_history = Preloaded(n)
          /\ request_history_copy = Preloaded(n)
          /\ limiterLog = [k \in ApiKeys |->
                IF k = "sk_test_12345"
                THEN [i \in 1..n |-> [ts |-> 0, allowed |-> TRUE,
                                      allowed_copy |-> TRUE]]
                ELSE <<>>]

NextGateway ==
    \/ Tick
    \/ \E req \in Requests : ValidateRequest(req)
    \/ \E req \in Requests : GatewayRequest(req)

SpecGateway == InitGateway /\ [][NextGateway]_vars

(***************************************************************************)
(* The security context under traffic of several keys: requests of two     *)
(* valid keys and of an unknown one, in any order, and the clock.  The     *)
(* first key has MAX_REQUESTS_PER_SECOND - 1 admitted requests in the      *)
(* window at the start.                                                    *)
(***************************************************************************)
MaxKeyRequests == 3   \* requests each valid key sends

KeysPreload == Preloaded(MAX_REQUESTS_PER_SECOND - 1)

\* gateway_auth.py:304-346 called for a POST /intent of the key
KeyRequest(api_key) ==
    LET req == [api_key |-> api_key, method |-> "POST", path |-> "/intent",
                header_size |-> 100, body_size |-> 0]
        r == validate_request(request_history, req, now)
    IN /\ Len(limiterLog[api_key]) < Len(KeysPreload[api_key]) + MaxKeyRequests
       /\ request_history' = r.history
       /\ limiterLog' = IF validate(api_key)
                        THEN [limiterLog EXCEPT ![api_key] =
                                 Append(@, [ts |-> now, status |-> r.status])]
                        ELSE limiterLog
       /\ lastReq' = [NoRequest EXCEPT !.via = "security_context",
                                       !.api_key = api_key, !.bearer = TRUE,
                                       !.method = req.method, !.path = req.path,
                                       !.header_size = req.header_size,
                                       !.status = r.status]
       /\ UNCHANGED <<now, request_history_copy>>
       /\ UNCHANGED <<orchVars, queueVars, pruneVars>>

InitKeys ==
    /\ InitIdleOrchestrator /\ InitQueue /\ IdlePrune
    /\ now = 0
    /\ lastReq = NoRequest
    /\ request_history = KeysPreload
    /\ request_history_copy = [k \in ApiKeys |-> <<>>]
    /\ limiterLog = [k \in ApiKeys |->
                        [i \in 1..Len(KeysPreload[k]) |-> [ts |-> 0, status |-> 200]]]

NextKeys ==
    \/ Tick
    \/ \E api_key \in ApiKeys : KeyRequest(api_key)

SpecKeys == InitKeys /\ [][NextKeys]_vars

(***************************************************************************)
(* Policy pruning of a plan set, orchestrator.py:586-636.                  *)
(***************************************************************************)
MaxSteps == 2   \* steps of a plan
DefaultMinPlanConfidence == 7500
SandboxRoot == "/tmp/ct-sandbox/"

PruneActions == {"inspect_repo", "apply_patch", "delete_repo"}
PruneTargets == {"/tmp/ct-sandbox/a", "/etc/passwd", "", "/tmp/ct-sandbox"}
PruneSteps == [action : PruneActions, target : PruneTargets]
PruneConfidences == {7000, 7500, 9000}
StepLists == UNION {[1..n -> PruneSteps] : n \in 0..MaxSteps}
\* the "phases" of a candidate plan: none, or one phase holding one step
PrunePhase(step) == [phase_id |-> 1, steps |-> <<step>>]
PrunePhaseLists ==
    {<<>>,
     <<PrunePhase([action |-> "delete_repo", target |-> "/tmp/ct-sandbox/a"])>>,
     <<PrunePhase([action |-> "apply_patch", target |-> "/etc/passwd"])>>}
PrunePlans(plan_id) ==
    [plan_id : {plan_id}, confidence : PruneConfidences, steps : StepLists,
     phases : PrunePhaseLists]
PrunePolicies ==
    [min_plan_confidence : {DefaultMinPlanConfidence},
     sandbox_only_actions : {{}, {"apply_patch"}},
     forbidden_actions : {{}, {"delete_repo"}}]
PlanSets ==
    {<<>>} \cup {<<p>> : p \in PrunePlans(1)}
    \cup {<<p, q>> : p \in {x \in PrunePlans(1) : Len(x.steps) = 1 /\ x.confidence = 9000},
                     q \in {x \in PrunePlans(2) : Len(x.steps) = 1}}

\* the violations of one step, orchestrator.py:612-623
StepViolations(step, policy) ==
    (IF step.action \in policy.forbidden_actions
     THEN <<[kind |-> "is forbidden by policy", action |-> step.action,
             target |-> ""]>>
     ELSE <<>>)
    \o
    (IF /\ step.action \in policy.sandbox_only_actions
        /\ step.target # ""
        /\ ~StartsWith(step.target, SandboxRoot)
     THEN <<[kind |-> "only allowed in sandbox", action |-> step.action,
             target |-> step.target]>>
     ELSE <<>>)

RECURSIVE StepsViolations(_, _)
StepsViolations(steps, policy) ==
    IF steps = <<>> THEN <<>>
    ELSE StepViolations(Head(steps), policy) \o StepsViolations(Tail(steps), policy)

\* orchestrator.py:603-609 and the step walk
PlanViolations(plan, policy) ==
    (IF plan.confidence < policy.min_plan_confidence
     THEN <<[kind |-> "below threshold", action |-> "", target |-> ""]>>
     ELSE <<>>)
    \o StepsViolations(plan.steps, policy)

RECURSIVE prune_plans_by_policy(_, _)
prune_plans_by_policy(plans, policy) ==
    IF plans = <<>> THEN [approved |-> <<>>, rejections |-> <<>>]
    ELSE LET plan == Head(plans)
             violations == PlanViolations(plan, policy)
             rest == prune_plans_by_policy(Tail(plans), policy)
         IN IF violations # <<>>
            THEN [approved |-> rest.approved,
                  rejections |-> <<[plan_id |-> plan.plan_id,
                                    status |-> "rejected",
                                    reasons |-> violations]>> \o rest.rejections]
            ELSE [approved |-> <<plan>> \o rest.approved,
                  rejections |-> rest.rejections]

Prune ==
    LET r == prune_plans_by_policy(pruneIn.plans, pruneIn.policy)
    IN /\ ~pruneOut.done
       /\ pruneOut' = [done |-> TRUE, approved |-> r.approved,
                       rejections |-> r.rejections]
       /\ UNCHANGED <<pruneIn, planning, calLog, resumeLog>>
       /\ UNCHANGED <<orchVars, queueVars, gwVars>>

InitPrune ==
    /\ InitIdleOrchestrator /\ InitQueue /\ IdleGateway
    /\ pruneIn \in [plans : PlanSets, policy : PrunePolicies]
    /\ pruneOut = NoPruneOutput
    /\ planning = NoPlanning /\ calLog = <<>> /\ resumeLog = NoResume

NextPrune == Prune

SpecPrune == InitPrune /\ [][NextPrune]_vars

(***************************************************************************)
(* Plan generation: generate_execution_plan (orchestrator.py:1385-1475),   *)
(* generate_execution_plan_set (1477-1663) with delegate_plan_generation   *)
(* (718-826) and rank_plans (638-716), each called once from a running     *)
(* orchestrator, and one call of execute_plan_with_phases.                 *)
(***************************************************************************)
HistorySuccessBonus == 500        \* 0.05

\* rank_plans: the calibration multiplier of a plan, by its plan_id
PlanMultiplier(cal, plan_id) ==
    LET base == get_penalty(cal, "plan_action", "propose")
    IN CASE plan_id = "B" -> Min((base * 98) \div 100, Scale)
         [] plan_id = "C" -> Min((base * 95) \div 100, Scale)
         [] OTHER -> Min(base, Scale)

PlanScore(cal, plan) ==
    Max(0, Min(Scale, (plan.confidence * PlanMultiplier(cal, plan.plan_id)) \div Scale
                          + HistorySuccessBonus \div 2))

\* list.sort(key=score, reverse=True): stable, highest score first
RECURSIVE SortedByScore(_, _)
SortedByScore(cal, plans) ==
    IF plans = <<>> THEN <<>>
    ELSE LET best == CHOOSE i \in 1..Len(plans) :
                        /\ \A j \in 1..Len(plans) :
                              PlanScore(cal, plans[j]) <= PlanScore(cal, plans[i])
                        /\ \A j \in 1..(i - 1) :
                              PlanScore(cal, plans[j]) < PlanScore(cal, plans[i])
         IN <<plans[best]>> \o SortedByScore(cal, RemoveAt(plans, best))

\* orchestrator.py:638-716 (ranking_config.enable from policy.ranking_enabled)
rank_plans(plans, cal, policy) ==
    IF plans = <<>> THEN <<>>
    ELSE IF ~policy.ranking_enabled THEN plans
    ELSE SortedByScore(cal, plans)

\* orchestrator.py:1791-1826: the explanation the reasoning backend gives,
\* or the fallback built from the reason
generate_blocked_review(reason, source) ==
    [type |-> "review_blocked", reason |-> reason, source |-> source]

\* Plans a plan set may hold
GoodPlan(plan_id) ==
    [plan_id |-> plan_id, confidence |-> 9000,
     steps |-> <<[action |-> "apply_patch", target |-> "/tmp/ct-sandbox/a"]>>]
OutsidePlan(plan_id) ==
    [plan_id |-> plan_id, confidence |-> 9000,
     steps |-> <<[action |-> "apply_patch", target |-> "/etc/passwd"]>>]
WeakPlan(plan_id) ==
    [plan_id |-> plan_id, confidence |-> 7000,
     steps |-> <<[action |-> "inspect_repo", target |-> "/tmp/ct-sandbox/a"]>>]

\* An answer of the reasoning backend to a plan-set prompt: ok is FALSE for
\* a transport error, a status other than 200 or a body that is not JSON.
NoAnswer == [ok |-> FALSE, plans |-> <<>>]
PlanSetAnswers ==
    {NoAnswer} \cup
    {[ok |-> TRUE, plans |-> p] :
        p \in {<<>>, <<GoodPlan("A")>>, <<OutsidePlan("A")>>,
               <<WeakPlan("A"), OutsidePlan("B")>>,
               <<OutsidePlan("A"), GoodPlan("B")>>,
               <<WeakPlan("A"), GoodPlan("B")>>}}

AgentIds == <<"A", "B", "C">>
MaxAgents == 2      \* delegation_config.agent_count

PlanSetPolicies ==
    [phase_enabled : {TRUE}, allow_phase_skipping : {TRUE},
     enable_predictive_staging : {FALSE}, planning_forbidden : BOOLEAN,
     delegation_enabled : BOOLEAN, agent_count : {MaxAgents},
     ranking_enabled : {TRUE},
     min_plan_confidence : {DefaultMinPlanConfidence},
     sandbox_only_actions : {{"apply_patch"}}, forbidden_actions : {{}}]

PlanSetEnvs ==
    [agents : [1..MaxAgents -> PlanSetAnswers], meta : BOOLEAN,
     llm : [1..2 -> PlanSetAnswers], blocked : {"llm", "fallback"},
     review : BOOLEAN]

\* the answers generate_execution_plan_set consults under this policy; an
\* answer that is never asked for is fixed
PlanSetEnvsFor(policy) ==
    {e \in PlanSetEnvs :
        LET delegated == /\ ~policy.planning_forbidden
                         /\ policy.delegation_enabled
            answered == delegated /\ \E i \in 1..MaxAgents : e.agents[i].ok
            single == ~policy.planning_forbidden /\ ~answered
        IN /\ ~delegated => \A i \in 1..MaxAgents : e.agents[i] = NoAnswer
           /\ ~answered => ~e.meta
           /\ ~single => \A i \in 1..2 : e.llm[i] = NoAnswer
           /\ (single /\ e.llm[1].ok) => e.llm[2] = NoAnswer
           /\ policy.planning_forbidden => ~e.review}

\* orchestrator.py:718-826: the plan sets of the agents that answered, each
\* pruned and ranked, with the events emitted on the way
RECURSIVE delegate_plan_generation(_, _, _, _)
delegate_plan_generation(answers, i, policy, cal) ==
    IF i > Min(policy.agent_count, Len(answers))
    THEN [sets |-> <<>>, events |-> <<>>]
    ELSE LET rest == delegate_plan_generation(answers, i + 1, policy, cal)
             approved_plans == prune_plans_by_policy(answers[i].plans, policy).approved
             ranked_plans == rank_plans(approved_plans, cal, policy)
         IN IF answers[i].ok
            THEN [sets |-> <<[agent_id |-> AgentIds[i], plans |-> ranked_plans]>>
                              \o rest.sets,
                  events |-> <<[type |-> "delegated_plan_set",
                                agent_id |-> AgentIds[i],
                                plan_ids |-> [k \in 1..Len(ranked_plans) |->
                                                 ranked_plans[k].plan_id]]>>
                             \o rest.events]
            ELSE rest

\* orchestrator.py:1505-1550: the delegated path once some agent answered
DelegatedPlanSet(s, delegated, env) ==
    LET plan_set == delegated.sets[1].plans
    IN [s EXCEPT
          !.events = @ \o delegated.events
                       \o (IF env.meta
                           THEN <<[type |-> "meta_plan_comparison"],
                                  [type |-> "meta_plan_comparison"]>>
                           ELSE <<>>)
                       \o (IF env.review
                           THEN <<[type |-> "multiplan_review"]>> ELSE <<>>),
          !.LAST_PLAN_SET = plan_set,
          !.APPROVED_PLAN_ID = "none",
          !.HALTED = TRUE,
          !.returned = "plan_set",
          !.path = "delegated"]

\* generate_execution_plan_set without the HALT when pruning leaves no plan
SinglePlanSetNoHaltWithoutSurvivors(s, answer, env) ==
    LET pruned == prune_plans_by_policy(answer.plans, POLICY)
        ranked_plans == rank_plans(pruned.approved, s.CALIBRATION, POLICY)
        seen == [s EXCEPT !.events = @ \o
                    <<[type |-> "execution_plan_set"],
                      [type |-> "plan_pruning_result",
                       accepted_plan_ids |-> [k \in 1..Len(pruned.approved) |->
                                                 pruned.approved[k].plan_id],
                       total_after |-> Len(pruned.approved)]>>]
    IN IF pruned.approved = <<>>
       THEN [seen EXCEPT
               !.events = Append(@, generate_blocked_review(
                              "policy_pruning_no_survivors", env.blocked)),
               !.returned = "none",
               !.path = "no_survivors"]
       ELSE [seen EXCEPT
               !.events = @ \o <<[type |-> "plan_ranking_result"]>>
                            \o (IF env.review
                                THEN <<[type |-> "multiplan_review"]>> ELSE <<>>),
               !.LAST_PLAN_SET = ranked_plans,
               !.APPROVED_PLAN_ID = "none",
               !.HALTED = TRUE,
               !.returned = "plan_set",
               !.path = "single"]

\* orchestrator.py:1576-1643: the single-agent path on an answer with
\* status 200
SinglePlanSet(s, answer, env) ==
    LET pruned == prune_plans_by_policy(answer.plans, POLICY)
        ranked_plans == rank_plans(pruned.approved, s.CALIBRATION, POLICY)
        seen == [s EXCEPT !.events = @ \o
                    <<[type |-> "execution_plan_set"],
                      [type |-> "plan_pruning_result",
                       accepted_plan_ids |-> [k \in 1..Len(pruned.approved) |->
                                                 pruned.approved[k].plan_id],
                       total_after |-> Len(pruned.approved)]>>]
    IN IF pruned.approved = <<>>
       THEN [seen EXCEPT
               !.events = Append(@, generate_blocked_review(
                              "policy_pruning_no_survivors", env.blocked)),
               !.HALTED = TRUE,
               !.returned = "none",
               !.path = "no_survivors"]
       ELSE [seen EXCEPT
               !.events = @ \o <<[type |-> "plan_ranking_result"]>>
                            \o (IF env.review
                                THEN <<[type |-> "multiplan_review"]>> ELSE <<>>),
               !.LAST_PLAN_SET = ranked_plans,
               !.APPROVED_PLAN_ID = "none",
               !.HALTED = TRUE,
               !.returned = "plan_set",
               !.path = "single"]

\* orchestrator.py:1477-1663
generate_execution_plan_set(s, env) ==
    LET delegated == delegate_plan_generation(env.agents, 1, POLICY, s.CALIBRATION)
    IN IF POLICY.planning_forbidden
       THEN [s EXCEPT !.events = Append(@, generate_blocked_review(
                                     "restricted_action", env.blocked)),
                      !.HALTED = TRUE, !.returned = "none", !.path = "policy_block"]
       ELSE IF POLICY.delegation_enabled /\ delegated.sets # <<>>
       THEN DelegatedPlanSet(s, delegated, env)
       ELSE IF env.llm[1].ok THEN SinglePlanSet(s, env.llm[1], env)
       ELSE IF env.llm[2].ok THEN SinglePlanSet(s, env.llm[2], env)
       ELSE [s EXCEPT !.events = Append(@, generate_blocked_review(
                                     "low_confidence", env.blocked)),
                      !.HALTED = TRUE, !.returned = "none",
                      !.path = "retries_exhausted"]

\* a call of generate_execution_plan_set
CallPlanSet ==
    /\ planning.fn = "none"
    /\ \E env \in PlanSetEnvsFor(POLICY) :
          LET s == [HALTED |-> HALTED, LAST_PLAN_SET |-> LAST_PLAN_SET,
                    APPROVED_PLAN_ID |-> APPROVED_PLAN_ID,
                    CALIBRATION |-> CALIBRATION, events |-> <<>>,
                    returned |-> "none", path |-> "none"]
              r == generate_execution_plan_set(s, env)
          IN /\ HALTED' = r.HALTED
             /\ LAST_PLAN_SET' = r.LAST_PLAN_SET
             /\ APPROVED_PLAN_ID' = r.APPROVED_PLAN_ID
             /\ events' = r.events
             /\ planning' = [fn |-> "generate_execution_plan_set",
                             path |-> r.path, returned |-> r.returned,
                             before |-> LAST_PLAN_SET,
                             answers |-> IF r.path = "delegated"
                                         THEN env.agents ELSE env.llm]
    /\ UNCHANGED <<RESUME_REQUESTED, JUST_RESUMED, CURRENT_PLAN, APPROVED_STEP_ID,
                   APPROVED_PHASE_ID, CURRENT_PHASE, COMPLETED_PHASES,
                   SKIPPED_PHASES, PHASE_RESULTS, STAGED_PHASE_CACHE,
                   LAST_REJECTED_INTENT, LAST_PLAN_DRAFT, CALIBRATION, POLICY,
                   toolCalls, sent, planLog, pc, passes, passLimit, hpc, hsnap,
                   resume_in_halt, registry, audit>>
    /\ UNCHANGED <<pruneIn, pruneOut, calLog, resumeLog>>
    /\ UNCHANGED <<queueVars, gwVars>>

\* a call of generate_execution_plan
CallPlan ==
    /\ planning.fn = "none"
    /\ \E plan \in PlanPool \cup {NoPlan} : \E review \in BOOLEAN :
          LET r == generate_execution_plan(
                       Globals, [NoEnv EXCEPT !.plan = plan, !.review = review])
          IN /\ Commit(r)
             /\ planning' = [fn |-> "generate_execution_plan",
                             path |-> IF POLICY.planning_forbidden THEN "policy_block"
                                      ELSE IF plan = NoPlan THEN "retries_exhausted"
                                      ELSE "success",
                             returned |-> IF r.CURRENT_PLAN # CURRENT_PLAN
                                          THEN "plan" ELSE "none",
                             before |-> <<>>, answers |-> <<>>]
    /\ UNCHANGED <<RESUME_REQUESTED, JUST_RESUMED, APPROVED_PLAN_ID,
                   APPROVED_PHASE_ID, SKIPPED_PHASES, LAST_PLAN_SET, POLICY,
                   pc, passes, passLimit, hpc, hsnap, resume_in_halt, registry, audit>>
    /\ UNCHANGED <<pruneIn, pruneOut, calLog, resumeLog>>
    /\ UNCHANGED <<queueVars, gwVars>>

\* a call of execute_plan_with_phases on a phased plan
CallPhases ==
    /\ planning.fn = "none"
    /\ CURRENT_PLAN # NoPlan /\ CURRENT_PLAN.phases # <<>>
    /\ LET r == execute_plan_with_phases(Globals, CURRENT_PLAN)
       IN /\ Commit(r)
          /\ planning' = [fn |-> "execute_plan_with_phases",
                          path |-> IF CountType(r.events, "phase_blocked") > 0
                                   THEN "phase_blocked"
                                   ELSE IF CountType(r.events, "plan_completed") > 0
                                   THEN "plan_completed"
                                   ELSE "phase_boundary",
                          returned |-> "none", before |-> <<>>, answers |-> <<>>]
    /\ UNCHANGED <<RESUME_REQUESTED, JUST_RESUMED, APPROVED_PLAN_ID,
                   APPROVED_PHASE_ID, SKIPPED_PHASES, LAST_PLAN_SET, POLICY,
                   pc, passes, passLimit, hpc, hsnap, resume_in_halt, registry, audit>>
    /\ UNCHANGED <<pruneIn, pruneOut, calLog, resumeLog>>
    /\ UNCHANGED <<queueVars, gwVars>>

\* a running orchestrator (HALTED is False) about to plan
InitPlanning ==
    /\ HALTED = FALSE /\ RESUME_REQUESTED = FALSE /\ JUST_RESUMED \in BOOLEAN
    /\ CURRENT_PLAN \in {NoPlan, PhasedPlanDeps, PhasedPlanDependsOn,
                         PhasedPlanShiftedIds}
    /\ APPROVED_STEP_ID = NoId /\ APPROVED_PLAN_ID \in {"none", "A"}
    /\ APPROVED_PHASE_ID = NoId /\ CURRENT_PHASE = NoId
    /\ COMPLETED_PHASES = <<>> /\ SKIPPED_PHASES \in {<<>>, <<1>>}
    /\ PHASE_RESULTS = {} /\ STAGED_PHASE_CACHE = {}
    /\ LAST_REJECTED_INTENT = NoIntent /\ LAST_PLAN_DRAFT = NoIntent
    /\ LAST_PLAN_SET \in {<<>>, <<GoodPlan("A")>>}
    /\ CALIBRATION \in {[k \in CalKeys |->
                            IF k = <<"plan_action", "propose">> THEN c
                            ELSE NoPenalty] : c \in {NoPenalty, 8500}}
    /\ POLICY \in PlanSetPolicies
    /\ events = <<>> /\ toolCalls = <<>> /\ sent = <<>> /\ planLog = <<>>
    /\ pc = "top" /\ passes = 0 /\ passLimit = MaxPasses /\ hpc = "idle" /\ hsnap = NoSnapshot
    /\ resume_in_halt = FALSE
    /\ registry = [i \in ComposedIds |-> "none"]
    /\ audit = <<>>
    /\ InitQueue /\ IdleGateway
    /\ pruneIn = NoPruneInput /\ pruneOut = NoPruneOutput
    /\ planning = NoPlanning /\ calLog = <<>> /\ resumeLog = NoResume

NextPlanning == CallPlanSet \/ CallPlan \/ CallPhases

SpecPlanning == InitPlanning /\ [][NextPlanning]_vars

(***************************************************************************)
(* The control loop over several passes, with the resume signal: started   *)
(* at startup or halted on a plan generate_execution_plan has just         *)
(* installed (orchestrator.py:1441-1453).                                  *)
(***************************************************************************)
MaxLoopPasses == 3  \* control-loop passes explored with the resume signal

OnePhasePlan == [plan_id |-> "one_phase", steps |-> <<>>,
                 phases |-> <<Phase(1, {}, {})>>]

\* intents the reasoning backend may answer with, among them a mode the
\* ladder does not know
LoopIntents == [intent : {"inspect_repo"}, mode : {"reason-only", "propose", "execute"},
                confidence : {4000, 9000}, target : {"/tmp/ct-sandbox/a"}]

LoopAnyMode == IntentStep(LoopIntents)

InitLoop ==
    /\ HALTED \in BOOLEAN /\ RESUME_REQUESTED = FALSE /\ JUST_RESUMED = FALSE
    /\ CURRENT_PLAN \in (IF HALTED
                         THEN {OnePhasePlan, PhasedPlanDeps, PhasedPlanDependsOn}
                         ELSE {NoPlan})
    /\ APPROVED_STEP_ID = NoId /\ APPROVED_PLAN_ID = "none"
    /\ APPROVED_PHASE_ID = NoId /\ CURRENT_PHASE = NoId
    /\ COMPLETED_PHASES = <<>> /\ SKIPPED_PHASES = <<>>
    /\ PHASE_RESULTS = {} /\ STAGED_PHASE_CACHE = {}
    /\ LAST_REJECTED_INTENT = NoIntent /\ LAST_PLAN_DRAFT = NoIntent
    /\ LAST_PLAN_SET = <<>>
    /\ CALIBRATION = [k \in CalKeys |-> NoPenalty]
    /\ POLICY \in [phase_enabled : {TRUE}, allow_phase_skipping : {TRUE},
                  enable_predictive_staging : BOOLEAN,
                  planning_forbidden : {FALSE}]
    /\ events = <<>> /\ toolCalls = <<>> /\ sent = <<>> /\ planLog = <<>>
    /\ pc = "top" /\ passes = 0 /\ passLimit = MaxLoopPasses
    /\ hpc = "idle" /\ hsnap = NoSnapshot
    /\ resume_in_halt = FALSE
    /\ registry = [i \in ComposedIds |-> "none"]
    /\ audit = <<>>
    /\ InitQueue /\ IdleGateway /\ IdlePrune

NextLoop ==
    \/ LoopResume
    \/ LoopReflect
    \/ LoopPhased
    \/ LoopAnyMode
    \/ \E b \in ResumeBodies : HandleResumeBody(b)
    \/ HandleResumeUnreadable
    \/ HandleResumeFlag

SpecLoop == InitLoop /\ [][NextLoop]_vars

\* The same under the scheduling the code has: the control loop is a
\* `while True` on its own thread, so a pass that can be made is made, and
\* a resume request is sent and served whenever the signal server is idle
\* (a resume signal follows every HALT).
SpecLoopLive ==
    /\ InitLoop /\ [][NextLoop]_vars
    /\ WF_vars(LoopResume) /\ WF_vars(LoopPhased)
    /\ WF_vars(HandleResumeBody(NoBody)) /\ WF_vars(HandleResumeFlag)

(***************************************************************************)
(* A second plan after a first: the orchestrator halted on a phased plan,  *)
(* the resume signal, the phase engine, and a call of                      *)
(* generate_execution_plan_set that leaves a plan set for the human to     *)
(* choose from (orchestrator.py:1477-1663, 2508-2553).                     *)
(***************************************************************************)
PhasedSetPlan(plan_id) ==
    [plan_id |-> plan_id, confidence |-> 9000, steps |-> <<>>,
     phases |-> <<Phase(1, {}, {}), Phase(2, {}, {1})>>]

ReplanPolicy ==
    [phase_enabled |-> TRUE, allow_phase_skipping |-> TRUE,
     enable_predictive_staging |-> FALSE, planning_forbidden |-> FALSE,
     delegation_enabled |-> FALSE, agent_count |-> MaxAgents,
     ranking_enabled |-> TRUE,
     min_plan_confidence |-> DefaultMinPlanConfidence,
     sandbox_only_actions |-> {"apply_patch"}, forbidden_actions |-> {}]

\* the reasoning backend answers the plan-set prompt at the first try
ReplanEnvs ==
    {[agents |-> [i \in 1..MaxAgents |-> NoAnswer], meta |-> FALSE,
      llm |-> <<[ok |-> TRUE, plans |-> plans], NoAnswer>>,
      blocked |-> "llm", review |-> FALSE] :
        plans \in {<<PhasedSetPlan("A")>>, <<GoodPlan("A")>>,
                   <<WeakPlan("A"), PhasedSetPlan("B")>>}}

ReplanBodies ==
    {NoBody, [NoBody EXCEPT !.approve_plan_id = "A"],
     [NoBody EXCEPT !.approve_plan_id = "B"],
     [NoBody EXCEPT !.skip_phases = <<1>>]}

\* generate_execution_plan_set called between two passes of the loop
Replan ==
    /\ pc = "top" /\ LAST_PLAN_SET = <<>>
    /\ \E env \in ReplanEnvs :
          LET s == [HALTED |-> HALTED, LAST_PLAN_SET |-> LAST_PLAN_SET,
                    APPROVED_PLAN_ID |-> APPROVED_PLAN_ID,
                    CALIBRATION |-> CALIBRATION, events |-> <<>>,
                    returned |-> "none", path |-> "none"]
              r == generate_execution_plan_set(s, env)
          IN /\ HALTED' = r.HALTED
             /\ LAST_PLAN_SET' = r.LAST_PLAN_SET
             /\ APPROVED_PLAN_ID' = r.APPROVED_PLAN_ID
             /\ events' = r.events
    /\ UNCHANGED <<RESUME_REQUESTED, JUST_RESUMED, CURRENT_PLAN, APPROVED_STEP_ID,
                   APPROVED_PHASE_ID, CURRENT_PHASE, COMPLETED_PHASES,
                   SKIPPED_PHASES, PHASE_RESULTS, STAGED_PHASE_CACHE,
                   LAST_REJECTED_INTENT, LAST_PLAN_DRAFT, CALIBRATION, POLICY,
                   toolCalls, sent, planLog, pc, passes, passLimit, hpc, hsnap,
                   resume_in_halt, registry, audit>>
    /\ UNCHANGED <<queueVars, gwVars, pruneVars>>

InitReplan ==
    /\ HALTED = TRUE /\ RESUME_REQUESTED = FALSE /\ JUST_RESUMED = FALSE
    /\ CURRENT_PLAN \in {PhasedPlanDeps, OnePhasePlan}
    /\ APPROVED_STEP_ID = NoId /\ APPROVED_PLAN_ID = "none"
    /\ APPROVED_PHASE_ID = NoId /\ CURRENT_PHASE = NoId
    /\ COMPLETED_PHASES = <<>> /\ SKIPPED_PHASES = <<>>
    /\ PHASE_RESULTS = {} /\ STAGED_PHASE_CACHE = {}
    /\ LAST_REJECTED_INTENT = NoIntent /\ LAST_PLAN_DRAFT = NoIntent
    /\ LAST_PLAN_SET = <<>>
    /\ CALIBRATION = [k \in CalKeys |-> NoPenalty]
    /\ POLICY = ReplanPolicy
    /\ events = <<>> /\ toolCalls = <<>> /\ sent = <<>> /\ planLog = <<>>
    /\ pc = "top" /\ passes = 0 /\ passLimit = MaxLoopPasses
    /\ hpc = "idle" /\ hsnap = NoSnapshot
    /\ resume_in_halt = FALSE
    /\ registry = [i \in ComposedIds |-> "none"]
    /\ audit = <<>>
    /\ InitQueue /\ IdleGateway /\ IdlePrune

NextReplan ==
    \/ LoopResume
    \/ LoopPhased
    \/ Replan
    \/ \E b \in ReplanBodies : HandleResumeBody(b)
    \/ HandleResumeFlag

SpecReplan == InitReplan /\ [][NextReplan]_vars

(***************************************************************************)
(* rank_plans called on its own (orchestrator.py:638-716): plan sets of up *)
(* to three plans with the ids A, B and C in any order.  The confidences   *)
(* and the calibration multipliers are chosen so that the products of the  *)
(* score are exact, in fixed point as in binary floating point.            *)
(***************************************************************************)
RankIds == {"A", "B", "C"}
RankConfidences == {4900, 5000, Scale}
RankPlan(plan_id, confidence) ==
    [plan_id |-> plan_id, confidence |-> confidence,
     steps |-> <<[action |-> "inspect_repo", target |-> "/tmp/ct-sandbox/a"]>>]
RankInputs ==
    UNION {{p \in [1..n -> {RankPlan(i, c) : i \in RankIds, c \in RankConfidences}] :
               \A j, k \in 1..n : j # k => p[j].plan_id # p[k].plan_id} :
           n \in 0..3}

\* one call of rank_plans on the plan set held in planning.before
CallRank ==
    /\ planning.fn = "none"
    /\ planning' = [planning EXCEPT
                       !.fn = "rank_plans",
                       !.answers = rank_plans(planning.before, CALIBRATION, POLICY)]
    /\ UNCHANGED <<pruneIn, pruneOut, calLog, resumeLog>>
    /\ UNCHANGED <<orchVars, queueVars, gwVars>>

InitRank ==
    /\ HALTED = FALSE /\ RESUME_REQUESTED = FALSE /\ JUST_RESUMED = FALSE
    /\ CURRENT_PLAN = NoPlan
    /\ APPROVED_STEP_ID = NoId /\ APPROVED_PLAN_ID = "none"
    /\ APPROVED_PHASE_ID = NoId /\ CURRENT_PHASE = NoId
    /\ COMPLETED_PHASES = <<>> /\ SKIPPED_PHASES = <<>>
    /\ PHASE_RESULTS = {} /\ STAGED_PHASE_CACHE = {}
    /\ LAST_REJECTED_INTENT = NoIntent /\ LAST_PLAN_DRAFT = NoIntent
    /\ LAST_PLAN_SET = <<>>
    /\ CALIBRATION \in {[k \in CalKeys |->
                            IF k = <<"plan_action", "propose">> THEN c
                            ELSE NoPenalty] : c \in {NoPenalty, 5000}}
    /\ POLICY = ReplanPolicy
    /\ events = <<>> /\ toolCalls = <<>> /\ sent = <<>> /\ planLog = <<>>
    /\ pc = "top" /\ passes = 0 /\ passLimit = MaxPasses
    /\ hpc = "idle" /\ hsnap = NoSnapshot
    /\ resume_in_halt = FALSE
    /\ registry = [i \in ComposedIds |-> "none"]
    /\ audit = <<>>
    /\ InitQueue /\ IdleGateway
    /\ pruneIn = NoPruneInput /\ pruneOut = NoPruneOutput
    /\ planning \in {[NoPlanning EXCEPT !.before = plans] : plans \in RankInputs}
    /\ calLog = <<>> /\ resumeLog = NoResume

NextRank == CallRank

SpecRank == InitRank /\ [][NextRank]_vars

(***************************************************************************)
(* POST /intent of the FastAPI gateway (gateway.py:54-92, 324-392) down to *)
(* validate_intent and the schema (intent_validator.py:23-161, 276-325).   *)
(***************************************************************************)
MaxSubmits == 3     \* requests sent to the intent endpoints

\* JSON values of the optional "context" field
JsonNull == [type |-> "null", value |-> ""]
JsonString(str) == [type |-> "string", value |-> str]

SchemaIntents ==
    {"inspect_repo", "summarise_logs", "analyze_code", "plan_action",
     "apply_patch", "block_purchase", "verify_account", "require_mfa",
     "flag_for_review", "allow"}

\* request bodies; an absent "context" is None in the IntentRequest
SubmitBodies ==
    [intent : {"inspect_repo", "delete_repo"}, target : {"repo", " "},
     confidence : {9000, Scale + 1}, mode : {"reason-only", "execute"},
     context : {JsonNull, JsonString("nightly check")}]

\* gateway.py:54-92: the IntentRequest model accepts the body
IntentRequestValid(body) ==
    /\ body.intent \in SchemaIntents
    /\ body.target \notin {"", " "}
    /\ body.confidence >= 0 /\ body.confidence <= Scale
    /\ body.mode \in LadderModes

\* gateway.py:342-349: the dict handed to validate_intent
IntentDict(body) ==
    [intent |-> body.intent, source |-> body.target,
     confidence |-> body.confidence, mode |-> body.mode,
     context |-> body.context]

\* intent_validator.py:23-112, 135-148: the properties of intent_data that
\* violate INTENT_SCHEMA
SchemaErrors(intent_data) ==
    {f \in {"intent", "confidence", "mode", "context"} :
        CASE f = "intent" -> intent_data.intent \notin SchemaIntents
          [] f = "confidence" -> intent_data.confidence < 0
                                  \/ intent_data.confidence > Scale
          [] f = "mode" -> intent_data.mode \notin LadderModes
          [] f = "context" -> intent_data.context.type \notin {"string", "object"}}

\* intent_validator.py:276-325
validate_intent(q, intent_data, uuid) ==
    IF SchemaErrors(intent_data) = {}
    THEN [status |-> "accepted", intent_id |-> uuid,
          queue |-> add_pending(q, uuid)]
    ELSE [status |-> "rejected", intent_id |-> NoId, queue |-> q]

\* gateway.py:324-392: the handler, reached when the body is a valid
\* IntentRequest; any other body is answered 422 by the framework
SubmitIntent(body) ==
    LET result == validate_intent(Queue, IntentDict(body), next_uuid)
        accepted == IntentRequestValid(body) /\ result.status = "accepted"
    IN /\ lastReq.seq < MaxSubmits
       /\ next_uuid <= MaxIds
       /\ IF IntentRequestValid(body)
          THEN /\ CommitQueue(result.queue)
               /\ audit' = Append(audit, [operation |-> "submit_intent",
                                          result |-> result.status,
                                          intent_id |-> result.intent_id])
               /\ lastReq' = [seq |-> lastReq.seq + 1, via |-> "submit_intent",
                              body |-> body, status |-> 200,
                              response |-> [status |-> result.status,
                                            intent_id |-> result.intent_id]]
          ELSE /\ UNCHANGED <<pending, approved, rejected, audit>>
               /\ lastReq' = [seq |-> lastReq.seq + 1, via |-> "submit_intent",
                              body |-> body, status |-> 422,
                              response |-> [status |-> "none",
                                            intent_id |-> NoId]]
       /\ next_uuid' = IF accepted THEN next_uuid + 1 ELSE next_uuid
       /\ \E composed \in BOOLEAN :
             registry' = IF accepted
                         THEN compose_from_intent(registry, next_uuid, composed)
                         ELSE registry
       /\ lastCall' = IF accepted THEN Call("add_pending", next_uuid, TRUE, Queue)
                      ELSE lastCall
       /\ UNCHANGED succeeded
       /\ UNCHANGED <<HALTED, RESUME_REQUESTED, JUST_RESUMED, CURRENT_PLAN,
                      APPROVED_STEP_ID, APPROVED_PLAN_ID, APPROVED_PHASE_ID,
                      CURRENT_PHASE, COMPLETED_PHASES, SKIPPED_PHASES,
                      PHASE_RESULTS, STAGED_PHASE_CACHE, LAST_REJECTED_INTENT,
                      LAST_PLAN_DRAFT, LAST_PLAN_SET, CALIBRATION, POLICY, events,
                      toolCalls, sent, planLog, pc, passes, passLimit, hpc,
                      hsnap, resume_in_halt>>
       /\ UNCHANGED <<now, request_history, request_history_copy, limiterLog>>
       /\ UNCHANGED pruneVars

\* orchestrator.py:2269-2327: POST /governance/approve/<intent_id>, whatever
\* the id; composed says whether compose_from_intent produced a plan
ApproveIntentRequest(intent_id) ==
    LET i == PendingIndex(Queue, intent_id)
        status == IF i = 0 THEN 404
                  ELSE IF pending[i].status # "pending" THEN 409
                  ELSE 200
    IN /\ lastReq.seq < MaxSubmits
       /\ \E composed \in BOOLEAN :
             LET q == IF status = 200
                      THEN approve_intent(Queue, intent_id,
                                          IF composed THEN intent_id ELSE NoId)
                      ELSE Queue
             IN /\ registry' = IF status = 200
                                THEN compose_from_intent(registry, intent_id, composed)
                                ELSE registry
                /\ CommitQueue(q)
                /\ lastReq' = [seq |-> lastReq.seq + 1, via |-> "approve_intent",
                               body |-> intent_id, status |-> status,
                               response |-> [status |-> IF status = 200
                                                        THEN "approved" ELSE "error",
                                             intent_id |-> intent_id],
                               before |-> Queue, after |-> q]
       /\ audit' = IF status = 200
                   THEN Append(audit, [operation |-> "intent_approved",
                                       result |-> "success",
                                       intent_id |-> intent_id])
                   ELSE audit
       /\ lastCall' = IF status = 200
                      THEN Call("approve_intent", intent_id, TRUE, Queue)
                      ELSE lastCall
       /\ succeeded' = IF status = 200
                       THEN [succeeded EXCEPT !.ok[intent_id] = @ + 1]
                       ELSE succeeded
       /\ UNCHANGED next_uuid
       /\ UNCHANGED <<HALTED, RESUME_REQUESTED, JUST_RESUMED, CURRENT_PLAN,
                      APPROVED_STEP_ID, APPROVED_PLAN_ID, APPROVED_PHASE_ID,
                      CURRENT_PHASE, COMPLETED_PHASES, SKIPPED_PHASES,
                      PHASE_RESULTS, STAGED_PHASE_CACHE, LAST_REJECTED_INTENT,
                      LAST_PLAN_DRAFT, LAST_PLAN_SET, CALIBRATION, POLICY, events,
                      toolCalls, sent, planLog, pc, passes, passLimit, hpc,
                      hsnap, resume_in_halt>>
       /\ UNCHANGED <<now, request_history, request_history_copy, limiterLog>>
       /\ UNCHANGED pruneVars

\* The handlers below leave everything but the audit log and the record of
\* the request alone
ReadRequest(via, path, status, log) ==
    /\ lastReq.seq < MaxSubmits
    /\ lastReq' = [seq |-> lastReq.seq + 1, via |-> via, body |-> path,
                   status |-> status,
                   response |-> [status |-> "none", intent_id |-> NoId]]
    /\ audit' = log
    /\ UNCHANGED <<HALTED, RESUME_REQUESTED, JUST_RESUMED, CURRENT_PLAN,
                   APPROVED_STEP_ID, APPROVED_PLAN_ID, APPROVED_PHASE_ID,
                   CURRENT_PHASE, COMPLETED_PHASES, SKIPPED_PHASES,
                   PHASE_RESULTS, STAGED_PHASE_CACHE, LAST_REJECTED_INTENT,
                   LAST_PLAN_DRAFT, LAST_PLAN_SET, CALIBRATION, POLICY, events,
                   toolCalls, sent, planLog, pc, passes, passLimit, hpc,
                   hsnap, resume_in_halt, registry>>
    /\ UNCHANGED <<now, request_history, request_history_copy, limiterLog>>
    /\ UNCHANGED <<queueVars, pruneVars>>

GovernanceReadPaths ==
    {"/governance/orchestrator-state", "/governance/plans",
     "/governance/intents"}

\* orchestrator.py:2173-2229: SignalHandler.do_GET
SignalGet(path) ==
    ReadRequest("do_GET", path,
                IF path \in GovernanceReadPaths \cup {"/health"} THEN 200 ELSE 404,
                audit)

\* gateway.py:394-700: the five governance read handlers of the FastAPI
\* gateway; plan_id is the path parameter of get_plan (NoId elsewhere)
GatewayReadOps ==
    {"get_orchestrator_state", "get_plans", "get_plan", "get_intents",
     "get_audit_trail"}

GatewayRead(op, plan_id) ==
    LET found == op = "get_plan" => registry[plan_id] # "none"
    IN ReadRequest(op, plan_id, IF found THEN 200 ELSE 404,
                   Append(audit, [operation |-> op,
                                  result |-> IF found THEN "success"
                                             ELSE "not_found",
                                  intent_id |-> NoId]))

InitSubmit == InitIdleOrchestrator /\ InitQueue /\ IdleGateway /\ IdlePrune

NextSubmit ==
    \/ \E body \in SubmitBodies : SubmitIntent(body)
    \/ \E intent_id \in ComposedIds : ApproveIntentRequest(intent_id)
    \/ \E intent_id \in ComposedIds : QueueReject(intent_id)
    \/ \E path \in GovernanceReadPaths \cup {"/health", "/governance/audit"} :
          SignalGet(path)
    \/ \E op \in GatewayReadOps : \E plan_id \in 1..2 : GatewayRead(op, plan_id)

SpecSubmit == InitSubmit /\ [][NextSubmit]_vars

(***************************************************************************)
(* The calibration engine on its own: any sequence of update_penalty calls *)
(* on two keys, from a table seeded by bootstrap_memory.                   *)
(***************************************************************************)
MaxUpdates == 5     \* update_penalty calls made
MaxSeedRejections == 8   \* gate rejections of one key in the history file

UpdateKeys == {<<"inspect_repo", "reason-only">>, <<"inspect_repo", "simulate">>}
Outcomes == {"decay", "recovery", "reset"}

\* a history file holding n rejections of inspect_repo in reason-only mode
SeedHistory(n) == [i \in 1..n |-> HistoryRejection("inspect_repo", "reason-only")]

\* Contents of the history file at startup: rejections alone, a success
\* alone, rejections followed by a success
SeedHistories ==
    {SeedHistory(n) : n \in {0, 1, MaxSeedRejections}}
    \cup {<<HistorySuccess("inspect_repo")>>,
          SeedHistory(MaxSeedRejections) \o <<HistorySuccess("inspect_repo")>>}

\* orchestrator.py:1282-1296: one call, with the stored value before and after
CalUpdate(key, outcome) ==
    LET updated == update_penalty(CALIBRATION, key[1], key[2], outcome)
    IN /\ Len(calLog) < MaxUpdates
       /\ CALIBRATION' = updated
       /\ calLog' = Append(calLog, [key |-> key, outcome |-> outcome,
                                    before |-> CALIBRATION[key],
                                    after |-> updated[key]])
       /\ UNCHANGED <<HALTED, RESUME_REQUESTED, JUST_RESUMED, CURRENT_PLAN,
                      APPROVED_STEP_ID, APPROVED_PLAN_ID, APPROVED_PHASE_ID,
                      CURRENT_PHASE, COMPLETED_PHASES, SKIPPED_PHASES,
                      PHASE_RESULTS, STAGED_PHASE_CACHE, LAST_REJECTED_INTENT,
                      LAST_PLAN_DRAFT, LAST_PLAN_SET, POLICY, events,
                      toolCalls, sent, planLog, pc, passes, passLimit, hpc,
                      hsnap, resume_in_halt, registry, audit>>
       /\ UNCHANGED <<pruneIn, pruneOut, planning, resumeLog>>
       /\ UNCHANGED <<queueVars, gwVars>>

InitCalibration ==
    /\ HALTED = FALSE /\ RESUME_REQUESTED = FALSE /\ JUST_RESUMED = FALSE
    /\ CURRENT_PLAN = NoPlan
    /\ APPROVED_STEP_ID = NoId /\ APPROVED_PLAN_ID = "none"
    /\ APPROVED_PHASE_ID = NoId /\ CURRENT_PHASE = NoId
    /\ COMPLETED_PHASES = <<>> /\ SKIPPED_PHASES = <<>>
    /\ PHASE_RESULTS = {} /\ STAGED_PHASE_CACHE = {}
    /\ LAST_REJECTED_INTENT = NoIntent /\ LAST_PLAN_DRAFT = NoIntent
    /\ LAST_PLAN_SET = <<>>
    /\ \E h \in SeedHistories :
          CALIBRATION = bootstrap_memory([k \in CalKeys |-> NoPenalty], h)
    /\ POLICY = [phase_enabled |-> FALSE, allow_phase_skipping |-> TRUE,
                 enable_predictive_staging |-> FALSE, planning_forbidden |-> FALSE]
    /\ events = <<>> /\ toolCalls = <<>> /\ sent = <<>> /\ planLog = <<>>
    /\ pc = "top" /\ passes = 0 /\ passLimit = MaxPasses /\ hpc = "idle"
    /\ hsnap = NoSnapshot
    /\ resume_in_halt = FALSE
    /\ registry = [i \in ComposedIds |-> "none"]
    /\ audit = <<>>
    /\ InitQueue /\ IdleGateway /\ IdlePrune

NextCalibration == \E key \in UpdateKeys : \E outcome \in Outcomes : CalUpdate(key, outcome)

SpecCalibration == InitCalibration /\ [][NextCalibration]_vars

(***************************************************************************)
(* Properties of the control plane                                         *)
(***************************************************************************)
SentRecords == {sent[i] : i \in 1..Len(sent)}
IsPatchCall(c) == c.op = "patch"
PatchInvoked(r) == \E i \in 1..Len(r.calls) : IsPatchCall(r.calls[i])
\* raw confidence times the calibration penalty reaches 0.80 and the mandated
\* step is an apply_patch step
PatchGatePassed(r) ==
    /\ (r.intent.confidence * r.penalty) \div Scale >= PatchThreshold
    /\ r.mandated.action = "apply_patch"

\* C1: a send_intent call with a propose-mode intent posts nothing to the
\* tool gate, runs no tool and makes no backend request, and the
\* orchestrator is halted when the call returns, whatever the intent type
\* and the confidence.
C1_ProposeHaltsWithoutExecution ==
    \A r \in SentRecords :
        r.intent.mode = "propose" =>
            /\ ~r.gate /\ ~r.tool /\ r.calls = <<>>
            /\ r.halted

C1_Witness ==
    \E r \in SentRecords :
        /\ r.intent.mode = "propose" /\ r.intent.intent = "apply_patch"
        /\ r.intent.confidence = 9000 /\ r.mandated.action = "apply_patch"
        /\ HALTED

C3_ResumeWhileRunningIsNoOp ==
    [][(HALTED /\ ~HALTED') => resume_in_halt]_vars

\* C4 as stated: for every apply_patch intent handed to send_intent the patch
\* tool is invoked only if the gate conditions hold, and in every other case
\* a gate_rejection event is emitted and no tool call is made.
C4_PatchGateAllModes ==
    \A r \in SentRecords :
        r.intent.intent = "apply_patch" =>
            /\ PatchInvoked(r) => PatchGatePassed(r)
            /\ ~PatchGatePassed(r) => (r.rejection /\ ~r.tool /\ r.calls = <<>>)

\* C4 amended: the same for every apply_patch intent whose mode is not
\* propose; a propose-mode intent is answered by a plan draft and a HALT,
\* without a gate_rejection event, and never reaches the patch tool.
C4_PatchGate ==
    \A r \in SentRecords :
        r.intent.intent = "apply_patch" =>
            /\ PatchInvoked(r) => (PatchGatePassed(r) /\ r.intent.mode # "propose")
            /\ (~PatchGatePassed(r) /\ r.intent.mode # "propose")
                   => (r.rejection /\ ~r.tool /\ r.calls = <<>>)

C4_Witness ==
    \E r \in SentRecords :
        /\ r.intent.intent = "apply_patch" /\ r.intent.mode = "simulate"
        /\ PatchGatePassed(r) /\ PatchInvoked(r)

\* C5: no phase_started event is emitted for a phase while an id of its
\* depends_on list is missing from the completed phases.
C5_DependenciesCompletedBeforeStart ==
    \A i \in 1..Len(events) :
        events[i].type = "phase_started" =>
            events[i].depends_on \subseteq events[i].completed

IdsIn(partition) == {partition[i].intent_id : i \in 1..Len(partition)}

\* C6: for every intent id at most one approve / reject call succeeds; the
\* call on a pending id returns True, a call on an id that is not pending
\* returns False and leaves pending, approved and rejected as they were.
C6_AtMostOneDecisionPerIntent ==
    /\ \A intent_id \in ComposedIds : succeeded.ok[intent_id] <= 1
    /\ lastCall.op \in {"approve_intent", "reject_intent"} =>
          /\ lastCall.ok <=> lastCall.intent_id \in IdsIn(lastCall.before.pending)
          /\ ~lastCall.ok => Queue = lastCall.before
          /\ lastCall.ok => lastCall.intent_id \notin IdsIn(pending)

C6_Witness ==
    /\ lastCall.op = "reject_intent" /\ ~lastCall.ok
    /\ lastCall.intent_id \in IdsIn(approved)
    /\ succeeded.ok[lastCall.intent_id] = 1
    /\ pending # <<>>

(***************************************************************************)
(* Properties of the gateway                                               *)
(***************************************************************************)
\* the admitted calls among the first i - 1 that lie less than one window
\* before call i
AdmittedBefore(times, verdicts, i) ==
    {j \in 1..(i - 1) : verdicts[j] /\ times[i] - times[j] < WindowTicks}

RateLimited(times, verdicts) ==
    \A i \in 1..Len(times) :
        /\ verdicts[i] =>
              Cardinality(AdmittedBefore(times, verdicts, i)) + 1
                  <= MAX_REQUESTS_PER_SECOND
        /\ Cardinality(AdmittedBefore(times, verdicts, i))
              >= MAX_REQUESTS_PER_SECOND => ~verdicts[i]
        /\ (i > 1 /\ times[i] - times[i - 1] > WindowTicks) => verdicts[i]

\* C7: for a fixed API key, check_and_record (in both copies) never admits
\* more than MAX_REQUESTS_PER_SECOND requests in any rolling window, the
\* request that finds the window full is refused, and after the key has
\* been inactive for more than a window the next request is admitted.
C7_RateLimitPerRollingWindow ==
    \A k \in ApiKeys :
        LET times == [i \in 1..Len(limiterLog[k]) |-> limiterLog[k][i].ts]
        IN /\ RateLimited(times, [i \in 1..Len(limiterLog[k]) |->
                                      limiterLog[k][i].allowed])
           /\ RateLimited(times, [i \in 1..Len(limiterLog[k]) |->
                                      limiterLog[k][i].allowed_copy])

C7_Witness ==
    \E k \in ApiKeys : \E i, j \in 1..Len(limiterLog[k]) :
        /\ i = MAX_REQUESTS_PER_SECOND + 1 /\ j = i + 1
        /\ ~limiterLog[k][i].allowed /\ ~limiterLog[k][i].allowed_copy
        /\ limiterLog[k][i].ts = limiterLog[k][1].ts
        /\ limiterLog[k][j].ts - limiterLog[k][i].ts > WindowTicks
        /\ limiterLog[k][j].allowed /\ limiterLog[k][j].allowed_copy

FirstFailing(checks) ==
    IF ~checks.key THEN 401
    ELSE IF ~checks.rate THEN 429
    ELSE IF ~checks.size THEN 400
    ELSE IF ~checks.perm THEN 403
    ELSE 200

\* C8: the gateway answers every request with the status of the first
\* failing check in the order API key (401), rate limit (429), request size
\* (400), permission (403), and the request reaches a handler only when all
\* four pass; a request with an invalid key gets 401 whatever its method
\* and path.
C8_GatewayFirstFailingCheck ==
    lastReq.via = "gateway" =>
        /\ lastReq.status = FirstFailing(lastReq.checks)
        /\ lastReq.handler <=> FirstFailing(lastReq.checks) = 200
        /\ ~lastReq.checks.key => lastReq.status = 401

ForbiddenRequest(method, path) ==
    \/ method \in {"PUT", "DELETE", "PATCH"}
    \/ StartsWith(path, "/internal/")
    \/ StartsWith(path, "/approve")
    \/ StartsWith(path, "/resume")

\* C9: for a request with a valid key that is within the rate and size
\* limits, validate_request (in both copies) returns 403, never 200, when
\* the method is PUT, DELETE or PATCH or the path is under /internal/,
\* /approve or /resume.
C9_ForbiddenRequestsGet403 ==
    (/\ lastReq.via = "validate_request"
     /\ lastReq.checks.key /\ lastReq.checks.rate /\ lastReq.checks.size
     /\ ForbiddenRequest(lastReq.method, lastReq.path))
        => lastReq.status = 403 /\ lastReq.status_copy = 403

C9_Witness ==
    /\ lastReq.via = "validate_request"
    /\ lastReq.checks.key /\ lastReq.checks.rate /\ lastReq.checks.size
    /\ lastReq.method = "POST" /\ lastReq.path = "/internal/resume"
    /\ lastReq.status = 403 /\ lastReq.status_copy = 403

(***************************************************************************)
(* Properties of policy pruning                                            *)
(***************************************************************************)
InSandbox(target) == StartsWith(target, "/tmp/ct-sandbox/")

RejectedForSandbox(plan) ==
    \E i \in 1..Len(pruneOut.rejections) :
        /\ pruneOut.rejections[i].plan_id = plan.plan_id
        /\ \E r \in 1..Len(pruneOut.rejections[i].reasons) :
              pruneOut.rejections[i].reasons[r].kind = "only allowed in sandbox"

\* C10: prune_plans_by_policy rejects, with a reason naming the sandbox
\* constraint, every plan that has a step whose action is in
\* sandbox_only_actions and whose target does not begin with
\* /tmp/ct-sandbox/; a plan whose step targets all lie under
\* /tmp/ct-sandbox/, that has no forbidden action and whose confidence is
\* at least min_plan_confidence survives.
C10_SandboxOnlyStepsPruned ==
    pruneOut.done =>
        \A p \in 1..Len(pruneIn.plans) :
            LET plan == pruneIn.plans[p]
                steps == Range(plan.steps)
            IN /\ (\E step \in steps :
                      /\ step.action \in pruneIn.policy.sandbox_only_actions
                      /\ ~InSandbox(step.target))
                      => RejectedForSandbox(plan)
               /\ (/\ \A step \in steps : InSandbox(step.target)
                   /\ \A step \in steps :
                         step.action \notin pruneIn.policy.forbidden_actions
                   /\ plan.confidence >= pruneIn.policy.min_plan_confidence)
                      => plan \in Range(pruneOut.approved)


(***************************************************************************)
(* Properties of plan generation                                           *)
(***************************************************************************)
PlanningReturned ==
    planning.fn \in {"generate_execution_plan", "generate_execution_plan_set"}

\* C11: every return from plan generation leaves the orchestrator halted --
\* generate_execution_plan and generate_execution_plan_set have set HALTED
\* when they return, whether with a plan, after a policy block, after
\* pruning left no plan or after the retries were exhausted -- and so does
\* a phase of execute_plan_with_phases that is blocked by its dependencies.
C11_PlanGenerationLeavesHalted ==
    /\ PlanningReturned => HALTED
    /\ planning.path = "phase_blocked" => HALTED

C11_Witness ==
    /\ planning.fn = "generate_execution_plan_set"
    /\ planning.path = "no_survivors"
    /\ planning.returned = "none"
    /\ HALTED

\* the answers generate_execution_plan_set worked on held candidates and
\* pruning left none of them
ConsultedAnswers ==
    {planning.answers[i] : i \in {j \in DOMAIN planning.answers :
                                      planning.answers[j].ok}}
EveryCandidatePruned ==
    /\ planning.fn = "generate_execution_plan_set"
    /\ planning.path \in {"delegated", "single", "no_survivors"}
    /\ \E a \in ConsultedAnswers : a.plans # <<>>
    /\ \A a \in ConsultedAnswers : prune_plans_by_policy(a.plans, POLICY).approved = <<>>

\* C16: when pruning eliminates every candidate plan, on the single-agent
\* path and on the delegated path alike, the composer emits a blocked
\* explanation with the no-survivors reason, halts, and leaves no plan that
\* approve_plan_id could select.
C16_NoSurvivorsBlocksEveryPath ==
    EveryCandidatePruned =>
        /\ \E i \in 1..Len(events) :
              /\ events[i].type = "review_blocked"
              /\ events[i].reason = "policy_pruning_no_survivors"
        /\ HALTED
        /\ LAST_PLAN_SET = <<>>

\* C12: a call of the phased engine that completes a phase which is not
\* the last of the plan's phase array sets HALTED and starts no further
\* phase: at most one phase is started per resume, whatever the phase ids.
C12_OnePhaseStartedPerResume ==
    planning.fn = "execute_plan_with_phases" =>
        /\ CountType(events, "phase_started") <= 1
        /\ \A i \in 1..Len(events) :
              (/\ events[i].type = "phase_completed"
               /\ IndexOfPhase(CURRENT_PLAN.phases, events[i].phase_id)
                     < Len(CURRENT_PLAN.phases))
              => HALTED


(***************************************************************************)
(* Properties of the control loop over several passes                      *)
(***************************************************************************)
\* C13: plan_completed is emitted at most once for a phased plan, and only
\* when every phase of the plan is in COMPLETED_PHASES or SKIPPED_PHASES;
\* resume signals that come later do not emit it again.
C13_PlanCompletedAtMostOnce ==
    /\ \A i, j \in 1..Len(planLog) : planLog[i] = planLog[j] => i = j
    /\ CountType(events, "plan_completed") > 0 =>
          \A k \in 1..Len(CURRENT_PLAN.phases) :
              CURRENT_PLAN.phases[k].phase_id
                  \in Range(COMPLETED_PHASES) \cup Range(SKIPPED_PHASES)

\* the pass just ended was a reflection whose reissued intent the tool
\* gate rejected again, for a mode that has no successor in the ladder
ReflectionExhausted ==
    /\ pc = "top"
    /\ Len(sent) = 1
    /\ sent[1].gate /\ sent[1].rejection
    /\ LAST_REJECTED_INTENT = NoIntent
    /\ MODE_TRANSITIONS(sent[1].intent.mode) = "none"

\* C14: when a reflected intent is rejected again and its mode has no
\* successor in the ladder, the loop has set HALTED when the pass ends, so
\* that no further intent is issued until a resume signal is consumed.
C14_ExhaustedLadderHalts ==
    ReflectionExhausted => HALTED

\* the runtime record of the orchestrator
RuntimeRecord ==
    <<HALTED, CURRENT_PLAN, CURRENT_PHASE, APPROVED_STEP_ID, APPROVED_PHASE_ID,
      APPROVED_PLAN_ID, COMPLETED_PHASES, SKIPPED_PHASES>>

\* a step of the signal server: the control loop stays where it is
HandlerStep == pc' = pc /\ passes' = passes

\* C15: only the control loop writes the runtime record; a step of a
\* handler leaves HALTED, the current plan and phase, the approved step,
\* phase and plan ids and the completed and skipped phases as they are.
C15_OnlyLoopWritesRuntimeRecord ==
    [][HandlerStep => UNCHANGED RuntimeRecord]_vars


(***************************************************************************)
(* Properties of the intent endpoints                                      *)
(***************************************************************************)
ScenarioBody ==
    [intent |-> "inspect_repo", target |-> "repo", confidence |-> 9000,
     mode |-> "reason-only", context |-> JsonNull]

\* C17: submitting {intent: inspect_repo, target: repo, confidence: 0.9,
\* mode: reason-only} with no context through POST /intent of the gateway
\* is answered with status accepted and an intent_id, the intent is in
\* pending, and the audit event of the request has operation submit_intent
\* and result accepted.
C17_ScenarioIntentAccepted ==
    (lastReq.via = "submit_intent" /\ lastReq.body = ScenarioBody) =>
        /\ lastReq.response.status = "accepted"
        /\ lastReq.response.intent_id # NoId
        /\ PendingIndex(Queue, lastReq.response.intent_id) # 0
        /\ audit # <<>>
        /\ audit[Len(audit)] = [operation |-> "submit_intent",
                                result |-> "accepted",
                                intent_id |-> lastReq.response.intent_id]

\* a step of POST /intent on the orchestrator that queued an intent
IntentQueued == lastCall'.op = "add_pending" /\ next_uuid' # next_uuid

\* C18: handling POST /intent executes no side effect: it leaves HALTED,
\* the current plan, the approved step, plan and phase ids and the
\* completed and skipped phases unchanged, makes no tool call and moves no
\* intent out of pending.
C18_IntentEndpointExecutesNothing ==
    [][IntentQueued =>
          /\ UNCHANGED RuntimeRecord
          /\ UNCHANGED toolCalls
          /\ approved' = approved /\ rejected' = rejected
          /\ Len(pending') >= Len(pending)
          /\ SubSeq(pending', 1, Len(pending)) = pending]_vars

C18_Witness ==
    /\ lastCall.op = "add_pending"
    /\ PendingIndex(Queue, lastCall.intent_id) # 0
    /\ HALTED /\ CURRENT_PLAN # NoPlan


(***************************************************************************)
(* Properties of the calibration injection                                 *)
(***************************************************************************)
\* the latest send_intent call of the pass was rejected by the tool gate
LastSendRejected ==
    /\ sent # <<>>
    /\ sent[Len(sent)].gate /\ sent[Len(sent)].rejection
    /\ LAST_REJECTED_INTENT # NoIntent

\* C19: the calibration multiplier is not written back into the intent:
\* after send_intent the confidence of the intent kept for reflection and
\* the confidence in the gate_rejection event are the raw confidence the
\* intent was submitted with.
C19_ConfidenceStaysRaw ==
    LastSendRejected =>
        /\ LAST_REJECTED_INTENT.confidence = sent[Len(sent)].intent.confidence
        /\ \A i \in 1..Len(events) :
              (events[i].type = "gate_rejection" /\ "mode" \in DOMAIN events[i])
              => events[i].confidence = sent[Len(sent)].intent.confidence

\* the id of the latest approval request was in this partition beforehand
ApprovalOf(partition) ==
    /\ lastReq.via = "approve_intent"
    /\ lastReq.body \in IdsIn(partition)

\* C20: POST /governance/approve/{intent_id} is answered 404 when the id is
\* not a known pending intent and 409 when the intent has already been
\* approved or rejected; in both cases the queue is left unchanged.
C20_ApproveAnswers404And409 ==
    lastReq.via = "approve_intent" =>
        /\ (\/ ApprovalOf(lastReq.before.approved)
            \/ ApprovalOf(lastReq.before.rejected))
           => (lastReq.status = 409 /\ lastReq.after = lastReq.before)
        /\ (/\ ~ApprovalOf(lastReq.before.pending)
            /\ ~ApprovalOf(lastReq.before.approved)
            /\ ~ApprovalOf(lastReq.before.rejected))
           => (lastReq.status = 404 /\ lastReq.after = lastReq.before)

(***************************************************************************)
(* C21: GET /healthz and GET /readyz are answered (status 200, by the      *)
(* handler) whether or not the request carries an API key, and whatever    *)
(* the rate limiter holds for the caller.                                  *)
(***************************************************************************)
HealthPaths == {"/healthz", "/readyz"}

C21_HealthEndpointsOpen ==
    (/\ lastReq.via = "gateway"
     /\ lastReq.method = "GET"
     /\ StripQuery(lastReq.path) \in HealthPaths)
        => (lastReq.status = 200 /\ lastReq.handler)

(***************************************************************************)
(* C22: every request that reaches a governance read handler, every        *)
(* accepted intent submission and every intent approval appends exactly    *)
(* one event to the audit log, and no step removes or changes an event     *)
(* already in it.                                                          *)
(***************************************************************************)
AuditedRequest(req) ==
    \/ req.via \in GatewayReadOps
    \/ req.via = "do_GET" /\ req.body \in GovernanceReadPaths
    \/ req.via \in {"submit_intent", "approve_intent"} /\ req.status = 200

C22_OneAuditEventPerOperation ==
    [][/\ Len(audit') >= Len(audit)
       /\ SubSeq(audit', 1, Len(audit)) = audit
       /\ (lastReq'.seq # lastReq.seq /\ AuditedRequest(lastReq'))
             => Len(audit') = Len(audit) + 1]_vars

(***************************************************************************)
(* C23: three consecutive decay updates of a key that was absent from the  *)
(* calibration table leave its multiplier at max(1.0 * 0.85^3, 0.30); a    *)
(* reset that follows returns it to 1.0; and a reset stores 1.0 whatever   *)
(* the multiplier was.                                                     *)
(***************************************************************************)
\* calls i, i+1, i+2 are decays of one key that was absent before call i
ThreeDecaysOfFreshKey(i) ==
    /\ i + 2 <= Len(calLog)
    /\ calLog[i].before = NoPenalty
    /\ \A j \in i..(i + 2) : /\ calLog[j].outcome = "decay"
                             /\ calLog[j].key = calLog[i].key

ResetFollows(i) ==
    /\ i + 3 <= Len(calLog)
    /\ calLog[i + 3].outcome = "reset"
    /\ calLog[i + 3].key = calLog[i].key

SkipExtendedByResume ==
    /\ hpc = "idle" /\ hpc' = "resume"
    /\ POLICY.allow_phase_skipping
    /\ \E b \in ResumeBodies :
          /\ b.skip_phases # <<>>
          /\ SKIPPED_PHASES' = SKIPPED_PHASES \o b.skip_phases

StartedPhases(evs) ==
    {evs[i].phase_id : i \in {k \in 1..Len(evs) : evs[k].type = "phase_started"}}

MatchesMandatedStep(r) ==
    /\ r.mandated.action = r.intent.intent
    /\ r.mandated.target = r.intent.target

C25_PatchMatchesApprovedStepExactly ==
    \A r \in SentRecords :
        r.intent.intent = "apply_patch" =>
            /\ PatchInvoked(r) => MatchesMandatedStep(r)
            /\ (r.intent.mode # "propose" /\ ~MatchesMandatedStep(r))
                   => (r.rejection /\ r.calls = <<>>)

(***************************************************************************)
(* C26: for a plan whose phase dependencies follow the array order, with   *)
(* phase execution enabled and a resume signal after every HALT, each      *)
(* phased pass starts the first phase of the array that is neither         *)
(* completed nor skipped, every phase is eventually completed and          *)
(* plan_completed is eventually emitted.                                   *)
(***************************************************************************)
\* the ids of the phases of the plan not yet completed or skipped, and the
\* first of them in array order
OpenPhases(plan) ==
    {k \in 1..Len(plan.phases) :
        plan.phases[k].phase_id
            \notin Range(COMPLETED_PHASES) \cup Range(SKIPPED_PHASES)}

FirstOpenPhase(plan) ==
    IF OpenPhases(plan) = {} THEN NoId
    ELSE plan.phases[CHOOSE k \in OpenPhases(plan) :
                        \A j \in OpenPhases(plan) : k <= j].phase_id

PhasedPass == PhasedRoute /\ passes' # passes /\ LAST_REJECTED_INTENT = NoIntent

C26_PhasesWalkedInOrderToCompletion ==
    /\ [][PhasedPass =>
            StartedPhases(events') \subseteq {FirstOpenPhase(CURRENT_PLAN)}]_vars
    /\ \A plan \in {OnePhasePlan, PhasedPlanDeps} :
          (HALTED /\ CURRENT_PLAN = plan) ~>
             (/\ \A k \in 1..Len(plan.phases) :
                    plan.phases[k].phase_id \in Range(COMPLETED_PHASES)
              /\ plan.plan_id \in Range(planLog))

(***************************************************************************)
(* C27: over any sequence of resume signals for one plan each phase is     *)
(* started at most once: no pass starts a phase that an earlier pass has   *)
(* started, and COMPLETED_PHASES never holds an id twice.                  *)
(***************************************************************************)
C27_EachPhaseStartedAtMostOnce ==
    /\ \A i, j \in 1..Len(COMPLETED_PHASES) :
          COMPLETED_PHASES[i] = COMPLETED_PHASES[j] => i = j
    /\ \A i, j \in 1..Len(events) :
          (/\ events[i].type = "phase_started" /\ events[j].type = "phase_started"
           /\ events[i].phase_id = events[j].phase_id) => i = j

(***************************************************************************)
(* C28: an intent rejected in reason-only mode and rejected again after    *)
(* reflection is resubmitted in simulate mode with confidence 0.50 and a   *)
(* reset calibration for that mode; when the simulate submission is        *)
(* rejected too the intent is kept, so that the ladder goes on to propose  *)
(* mode (and the HALT) instead of dropping the intent.                     *)
(***************************************************************************)
GateRejected(r) == r.gate /\ r.rejection

\* the pass just ended reflected on a reason-only intent, in vain
ReflectionFailed ==
    /\ pc = "top"
    /\ Len(sent) = 2
    /\ sent[1].intent.mode = "reason-only"
    /\ GateRejected(sent[1])

C28_RejectedIntentClimbsWholeLadder ==
    ReflectionFailed =>
        /\ sent[2].intent.mode = "simulate"
        /\ sent[2].intent.confidence = ReframeConfidence
        /\ sent[2].penalty = Scale
        /\ GateRejected(sent[2]) =>
              /\ LAST_REJECTED_INTENT # NoIntent
              /\ LAST_REJECTED_INTENT.intent = sent[2].intent.intent
              /\ LAST_REJECTED_INTENT.mode = "simulate"

(***************************************************************************)
(* C29: no plan approved by prune_plans_by_policy holds a step whose       *)
(* action is forbidden, or a sandbox-only step whose target lies outside   *)
(* /tmp/ct-sandbox/, be the step in the plan's flat step list or in one    *)
(* of its phases.                                                          *)
(***************************************************************************)
StepsOfPlan(plan) ==
    Range(plan.steps)
        \cup UNION {Range(plan.phases[k].steps) : k \in 1..Len(plan.phases)}

StepAllowed(step, policy) ==
    /\ step.action \notin policy.forbidden_actions
    /\ step.action \in policy.sandbox_only_actions => InSandbox(step.target)

C29_SurvivorsHoldNoForbiddenStep ==
    pruneOut.done =>
        \A p \in 1..Len(pruneOut.approved) :
            \A step \in StepsOfPlan(pruneOut.approved[p]) :
                StepAllowed(step, pruneIn.policy)

(***************************************************************************)
(* C30: a resume request whose approve_phase_id names a phase that is not  *)
(* in the current plan, or a phase with a dependency missing from the      *)
(* completed phases, is rejected: the handler leaves APPROVED_PHASE_ID     *)
(* cleared, and the pass that the signal releases starts no phase.         *)
(***************************************************************************)
\* the dependency ids a phase names, under either key
DependsOn(phase) == phase.depends_on \cup phase.dependencies

\* the latest resume body approved a phase that the current plan lacks or
\* one with a dependency that is not completed
InvalidPhaseApproval ==
    LET id == resumeLog.approve_phase_id
    IN /\ id # NoId
       /\ CURRENT_PLAN # NoPlan /\ CURRENT_PLAN.phases # <<>>
       /\ \/ IndexOfPhase(CURRENT_PLAN.phases, id) = 0
          \/ ~(DependsOn(PhaseOfPlan(CURRENT_PLAN, id))
                  \subseteq Range(COMPLETED_PHASES))

C30_InvalidPhaseApprovalStartsNothing ==
    [][/\ (hpc' = "resume" /\ InvalidPhaseApproval') => APPROVED_PHASE_ID' = NoId
       /\ (JUST_RESUMED /\ passes' # passes /\ InvalidPhaseApproval)
             => StartedPhases(events') = {}]_vars

(***************************************************************************)
(* C31: after a resume signal whose body carries abort = true, no phase of *)
(* the current plan is started: while the latest resume signal served is   *)
(* an abort, no pass of the control loop emits phase_started for the       *)
(* current plan.                                                           *)
(***************************************************************************)
\* the latest resume signal has been served whole and carried abort
AbortSignalled == hpc = "idle" /\ resumeLog.abort

PhasesStartedOf(evs, plan) ==
    {evs[i].phase_id : i \in {k \in 1..Len(evs) :
                                /\ evs[k].type = "phase_started"
                                /\ evs[k].plan_id = plan.plan_id}}

C31_AbortStartsNoPhase ==
    [][(AbortSignalled /\ passes' # passes /\ CURRENT_PLAN' = CURRENT_PLAN)
          => PhasesStartedOf(events', CURRENT_PLAN) = {}]_vars

(***************************************************************************)
(* C32: every resume signal leaves the staged-phase cache empty, whatever  *)
(* fields its body carries; and staging a phase changes nothing but the    *)
(* cache: HALTED, CURRENT_PHASE, COMPLETED_PHASES and the other globals    *)
(* are as before and no event is emitted (SKIPPED_PHASES is not among the  *)
(* globals the function can write).                                        *)
(***************************************************************************)
ResumeBodyServed == hpc = "idle" /\ hpc' = "resume"

WithoutCache(s) == [s EXCEPT !.STAGED_PHASE_CACHE = {}]

StagingTouchesOnlyCache ==
    CURRENT_PLAN # NoPlan =>
       \A i \in 1..Len(CURRENT_PLAN.phases) :
          WithoutCache(stage_next_phase_if_applicable(
                          Globals, CURRENT_PLAN.phases[i].phase_id, CURRENT_PLAN))
             = WithoutCache(Globals)

C32_CacheEmptyAfterEveryResume ==
    /\ [][ResumeBodyServed => STAGED_PHASE_CACHE' = {}]_vars
    /\ []StagingTouchesOnlyCache

(***************************************************************************)
(* C33: a POST /governance/approve/{intent_id} that carries a valid API    *)
(* key and is within the rate and size limits passes the security context  *)
(* (status 200) and is forwarded to the orchestrator.                      *)
(***************************************************************************)
AuthenticatedApproval(r) ==
    /\ r.via = "validate_request"
    /\ r.method = "POST" /\ StartsWith(r.path, "/governance/approve/")
    /\ r.bearer /\ r.checks.key /\ r.checks.rate /\ r.checks.size

C33_GatewayForwardsApproval ==
    AuthenticatedApproval(lastReq) =>
        /\ lastReq.status_copy = 200
        /\ lastReq.status = 200
        /\ lastReq.handler

(***************************************************************************)
(* C34: the mandated step that gates an apply_patch is the step named by   *)
(* the step_id of the most recent resume signal: in every pass of the      *)
(* control loop, an apply_patch intent sent with a mandated step has the   *)
(* step whose id the latest resume signal served carried, so after a       *)
(* signal without step_id, or with an unreadable body, no step is mandated.*)
(***************************************************************************)
MandatedPatch(r) == r.intent.intent = "apply_patch" /\ r.mandated # NoStep

C34_MandateFromLatestResumeSignal ==
    [][(passes' # passes /\ hpc = "idle") =>
          \A i \in 1..Len(sent') :
             MandatedPatch(sent'[i]) => sent'[i].mandated.id = resumeLog.step_id]_vars

(***************************************************************************)
(* C35: when the plan the human approved out of a plan set becomes the     *)
(* current plan, COMPLETED_PHASES and SKIPPED_PHASES are empty: no phase   *)
(* id completed or skipped under an earlier plan is carried over.          *)
(***************************************************************************)
ApprovedPlanInstalled ==
    /\ pc = "top" /\ pc' = "body"
    /\ CURRENT_PLAN' # CURRENT_PLAN

C35_NoPhaseIdsCarriedOver ==
    [][ApprovedPlanInstalled =>
          (COMPLETED_PHASES' = <<>> /\ SKIPPED_PHASES' = <<>>)]_vars

(***************************************************************************)
(* C36: after any sequence of decay, recovery and reset updates, on top of *)
(* the updates bootstrap_memory replays from the history file, every       *)
(* calibration multiplier lies between 0.30 and 1.0, and a pair that was   *)
(* never updated reads as 1.0.                                             *)
(***************************************************************************)
C36_MultipliersStayInRange ==
    \A k \in CalKeys :
       /\ get_penalty(CALIBRATION, k[1], k[2]) >= DecayFloor
       /\ get_penalty(CALIBRATION, k[1], k[2]) <= Scale
       /\ k \notin UpdateKeys => get_penalty(CALIBRATION, k[1], k[2]) = Scale

\* a decay has been applied to a multiplier already at the floor and a
\* recovery to one already at 1.0
C36_Witness ==
    /\ \E i \in 1..Len(calLog) :
          calLog[i].outcome = "decay" /\ calLog[i].before = DecayFloor
    /\ \E i \in 1..Len(calLog) :
          calLog[i].outcome = "recovery" /\ calLog[i].before = Scale

(***************************************************************************)
(* C37: rank_plans returns a permutation of the plans it was given, in     *)
(* non-increasing order of final score, and two plans with equal final     *)
(* score come out in plan-id order (A before B before C) whatever their    *)
(* order in the input.                                                     *)
(***************************************************************************)
IdOrder(plan_id) == CASE plan_id = "A" -> 1 [] plan_id = "B" -> 2 [] OTHER -> 3

RankedPermutation(given, ranked) ==
    /\ Len(ranked) = Len(given)
    /\ Range(ranked) = Range(given)

RankedByScore(ranked) ==
    \A i, j \in 1..Len(ranked) :
       i < j => PlanScore(CALIBRATION, ranked[i]) >= PlanScore(CALIBRATION, ranked[j])

TiesInIdOrder(ranked) ==
    \A i, j \in 1..Len(ranked) :
       (i < j /\ PlanScore(CALIBRATION, ranked[i]) = PlanScore(CALIBRATION, ranked[j]))
          => IdOrder(ranked[i].plan_id) < IdOrder(ranked[j].plan_id)

C37_RankedByScoreTiesByPlanId ==
    planning.fn = "rank_plans" =>
       /\ RankedPermutation(planning.before, planning.answers)
       /\ RankedByScore(planning.answers)
       /\ TiesInIdOrder(planning.answers)

(***************************************************************************)
(* C38: every intent id that validate_intent accepted is, at every moment, *)
(* in exactly one of the partitions pending, approved and rejected, once;  *)
(* an id that was never accepted is in none.                               *)
(***************************************************************************)
AcceptedIds == 1..(next_uuid - 1)

CountIn(partition, intent_id) ==
    Cardinality({i \in 1..Len(partition) : partition[i].intent_id = intent_id})

Occurrences(intent_id) ==
    CountIn(pending, intent_id) + CountIn(approved, intent_id)
        + CountIn(rejected, intent_id)

C38_EachIntentInExactlyOnePartition ==
    \A intent_id \in ComposedIds :
       Occurrences(intent_id) = IF intent_id \in AcceptedIds THEN 1 ELSE 0

\* the three partitions hold an intent each, after calls that succeeded and
\* calls that were refused
C38_Witness ==
    /\ pending # <<>> /\ approved # <<>> /\ rejected # <<>>
    /\ succeeded.calls = MaxCalls

(***************************************************************************)
(* C39: gateway_auth.py and its copy gateway/gateway_auth.py answer every  *)
(* request alike: fed the same requests, the two security contexts return  *)
(* the same status code, and with it the same error code (each status has  *)
(* one error code in both modules), also for a path with a query string.   *)
(***************************************************************************)
C39_AuthCopiesAnswerAlike ==
    lastReq.via = "validate_request" => lastReq.status_copy = lastReq.status

(***************************************************************************)
(* C40: rate limiting is per key.  Whether a request of key K is refused   *)
(* with 429 is a function of K's own earlier admitted requests (those less *)
(* than one window old), so the requests of other keys in between change   *)
(* nothing for K; a request changes the history of its own key only; and a *)
(* request refused with 401 changes no history at all.                     *)
(***************************************************************************)
\* K's requests before the i-th that were admitted by the limiter and are
\* less than one window older
OwnRecentAdmitted(log, i) ==
    {j \in 1..(i - 1) : log[j].status # 429 /\ log[i].ts - log[j].ts < WindowTicks}

DecidedByOwnRequests ==
    \A k \in ValidKeys :
       \A i \in 1..Len(limiterLog[k]) :
          limiterLog[k][i].status = 429
             <=> Cardinality(OwnRecentAdmitted(limiterLog[k], i))
                    >= MAX_REQUESTS_PER_SECOND

OnlyOwnHistoryChanges ==
    \A k \in ApiKeys :
       request_history'[k] # request_history[k] =>
          (lastReq'.api_key = k /\ lastReq'.status # 401)

C40_RateLimitIsPerKey ==
    /\ []DecidedByOwnRequests
    /\ [][OnlyOwnHistoryChanges]_vars

\* the first key has been refused with 429 and later admitted again, the
\* second key was admitted in between, and the latest request was refused
\* with 401
C40_Witness ==
    LET log == limiterLog["sk_test_12345"]
    IN /\ \E i, j \in 1..Len(log) :
             i < j /\ log[i].status = 429 /\ log[j].status = 200
       /\ \E i \in 1..Len(limiterLog["sk_test_abcde"]) :
             limiterLog["sk_test_abcde"][i].status = 200
       /\ lastReq.status = 401

====
